---- MODULE Spec2Model ----
(***************************************************************************)
(* Audit Vault chat backend: ChatService (listSessions, getSession,        *)
(* deleteSession, sendMessage) over the Prisma store, and the assistant    *)
(* reply sanitizer.  Strings are TLA+ strings; a character is a string of  *)
(* length one.  Every await of a handler is one step of a request slot, so *)
(* concurrent requests interleave exactly at the awaits.                   *)
(***************************************************************************)
EXTENDS Integers, Sequences, FiniteSets, TLC

VARIABLES
  openRouterApiKey,  \* ChatService.openRouterApiKey, read once by the constructor
  sessions,          \* table ChatSession: id -> [userId, title]
  messages,          \* table ChatMessage in createdAt order: <<[id, sessionId, role, content]>>
  nextSessionId,     \* next fresh ChatSession id
  nextMessageId,     \* next fresh ChatMessage id
  reqs,              \* request slot -> the handler running in it (its locals and position)
  audit,             \* history of the store: who created, extended and deleted what
  sanitized,         \* a run of sanitizeAssistantContent: its input and its results
  dashboard,         \* DashboardPage: its two queries and what it renders
  register,          \* RegisterPage: its state, the last submit and its outcome
  chat               \* ChatPage: its state and its requests in flight

vars ==
  <<openRouterApiKey, sessions, messages, nextSessionId, nextMessageId, reqs, audit,
    sanitized, dashboard, register, chat>>

\* the pages of the frontend
frontend == <<dashboard, register, chat>>

\* the chat service with its store
backend ==
  <<openRouterApiKey, sessions, messages, nextSessionId, nextMessageId, reqs, audit,
    sanitized>>

-----------------------------------------------------------------------------
(* Bounds of the model *)

MaxSessions == 2       \* sessions ever created in Spec
MaxMessages == 2       \* messages ever created in Spec
LongExtra == 1         \* messages beyond the history window in SpecLong
MaxSanitizeLen == 5    \* longest sanitizer input in SpecSanitize

-----------------------------------------------------------------------------
(* Strings *)

Min(a, b) == IF a < b THEN a ELSE b

Max(a, b) == IF a > b THEN a ELSE b

\* s[i] of JavaScript, 1-based
CharAt(s, i) == SubSeq(s, i, i)

\* String.prototype.slice(from, to) for 0 <= from <= to, 0-based and end-exclusive
Slice(s, from, to) == SubSeq(s, Min(from, Len(s)) + 1, Min(to, Len(s)))

\* the suffix of s that starts at 1-based position i
From(s, i) == SubSeq(s, i, Len(s))

RECURSIVE Repeat(_, _)
Repeat(ch, n) == IF n = 0 THEN "" ELSE ch \o Repeat(ch, n - 1)

\* \s of the regular expressions and the white space of trim()
IsSpace(ch) == ch \in {" ", "\t", "\n", "\r"}

\* characters that . does not match
IsLineTerminator(ch) == ch \in {"\n", "\r"}

RECURSIVE TrimStart(_)
TrimStart(s) ==
  IF Len(s) > 0 /\ IsSpace(CharAt(s, 1)) THEN TrimStart(From(s, 2)) ELSE s

RECURSIVE TrimEnd(_)
TrimEnd(s) ==
  IF Len(s) > 0 /\ IsSpace(CharAt(s, Len(s))) THEN TrimEnd(SubSeq(s, 1, Len(s) - 1)) ELSE s

\* String.prototype.trim
Trim(s) == TrimEnd(TrimStart(s))

\* Array.prototype.join
RECURSIVE Join(_, _)
Join(parts, sep) ==
  IF parts = <<>> THEN ""
  ELSE IF Len(parts) = 1 THEN parts[1]
  ELSE parts[1] \o sep \o Join(Tail(parts), sep)

\* String.prototype.includes
Includes(s, sub) ==
  \E i \in 1..(Len(s) - Len(sub) + 1) : SubSeq(s, i, i + Len(sub) - 1) = sub

UpperCase == "ABCDEFGHIJKLMNOPQRSTUVWXYZ"

LowerCase == "abcdefghijklmnopqrstuvwxyz"

\* String.prototype.toLowerCase on ASCII text
RECURSIVE ToLowerCase(_)
ToLowerCase(s) ==
  IF s = "" THEN ""
  ELSE LET ch == CharAt(s, 1)
           at == {i \in 1..Len(UpperCase) : CharAt(UpperCase, i) = ch}
       IN (IF at = {} THEN ch ELSE CharAt(LowerCase, CHOOSE i \in at : TRUE))
          \o ToLowerCase(From(s, 2))

-----------------------------------------------------------------------------
(* Response sanitizer: ChatService.sanitizeAssistantContent *)

\* the text d stands in s at position i
StartsWith(s, i, d) ==
  /\ i >= 1
  /\ i + Len(d) - 1 <= Len(s)
  /\ SubSeq(s, i, i + Len(d) - 1) = d

\* (.+?) can stand for s[a..b]: at least one character, none a line terminator
DotPlus(s, a, b) == a <= b /\ \A k \in a..b : ~IsLineTerminator(CharAt(s, k))

\* where the closing d of a match of d(.+?)d opened at i can stand
Closings(s, i, d) ==
  {j \in (i + Len(d) + 1)..Len(s) : StartsWith(s, j, d) /\ DotPlus(s, i + Len(d), j - 1)}

\* where a match of d(.+?)d can begin, at or after pos
Openings(s, pos, d) ==
  {i \in pos..Len(s) : StartsWith(s, i, d) /\ Closings(s, i, d) # {}}

Least(S) == CHOOSE x \in S : \A y \in S : x <= y

\* s.replace(/d(.+?)d/g, '$1') from pos on: the leftmost match, closed at the
\* first closing (lazy), loses its two markers; the scan goes on behind it
RECURSIVE StripPairsFrom(_, _, _)
StripPairsFrom(s, pos, d) ==
  IF Openings(s, pos, d) = {}
  THEN From(s, pos)
  ELSE LET i == Least(Openings(s, pos, d))
           j == Least(Closings(s, i, d))
       IN SubSeq(s, pos, i - 1) \o SubSeq(s, i + Len(d), j - 1)
          \o StripPairsFrom(s, j + Len(d), d)

\* a replace that drops every d, paired or not
RECURSIVE StripMarkers(_, _)
StripMarkers(s, d) ==
  IF s = "" THEN ""
  ELSE IF StartsWith(s, 1, d) THEN StripMarkers(From(s, Len(d) + 1), d)
  ELSE CharAt(s, 1) \o StripMarkers(From(s, 2), d)

StripPairs(s, d) == StripPairsFrom(s, 1, d)

\* the number of white space characters s begins with
LeadingSpaces(s) == Len(s) - Len(TrimStart(s))

RECURSIVE LeadingHashes(_)
LeadingHashes(s) ==
  IF Len(s) > 0 /\ CharAt(s, 1) = "#" THEN 1 + LeadingHashes(From(s, 2)) ELSE 0

MaxHeadingLevel == 6   \* #{1,6}

\* line.replace(/^\s*#{1,6}\s+/, '')
StripHeading(line) ==
  LET body == TrimStart(line)
      hashes == LeadingHashes(body)
      rest == From(body, hashes + 1)
  IN IF hashes >= 1 /\ hashes <= MaxHeadingLevel /\ LeadingSpaces(rest) >= 1
     THEN TrimStart(rest)
     ELSE line

\* a line left with its list dash
KeepDash(line) == line

\* line.replace(/^\s*-\s+/, '')
StripDash(line) ==
  LET body == TrimStart(line)
      rest == From(body, 2)
  IN IF Len(body) > 0 /\ CharAt(body, 1) = "-" /\ LeadingSpaces(rest) >= 1
     THEN TrimStart(rest)
     ELSE line

\* the positions of sep in s
Positions(s, sep) == {i \in 1..Len(s) : CharAt(s, i) = sep}

\* String.prototype.split for a separator of one character
RECURSIVE Split(_, _)
Split(s, sep) ==
  IF Positions(s, sep) = {}
  THEN <<s>>
  ELSE LET i == Least(Positions(s, sep))
       IN <<SubSeq(s, 1, i - 1)>> \o Split(From(s, i + 1), sep)

\* a line of the reply without its heading marker and its list dash
CleanLine(line) == StripDash(StripHeading(line))

\* sanitizeAssistantContent(content)
SanitizeAssistantContent(content) ==
  IF content = "" THEN content
  ELSE LET cleaned == StripPairs(StripPairs(StripPairs(content, "**"), "*"), "_")
           lines == Split(cleaned, "\n")
       IN Trim(Join([i \in DOMAIN lines |-> CleanLine(lines[i])], "\n"))

-----------------------------------------------------------------------------
(* The store (Prisma): ChatSession, ChatMessage, Document *)

Users == {"u1", "u2"}

\* an absent session id (dto.sessionId undefined, or findFirst returning null)
NoSession == 0

NoMessage == [id |-> 0, sessionId |-> NoSession, role |-> "none", content |-> ""]

\* Option values of nullable columns: <<>> is null, <<v>> is v
Null == <<>>

Some(v) == <<v>>

\* table Document, read and never written by the chat service
Documents ==
  << [id |-> "docA", title |-> "Q3 Report", fundId |-> "fund1",
      fund |-> Some([name |-> "Alpha Fund", code |-> "ALP"]),
      type |-> "QUARTERLY_REPORT", status |-> "APPROVED",
      periodStart |-> [year |-> 2025, month |-> 7, day |-> 1],
      periodEnd |-> [year |-> 2025, month |-> 9, day |-> 30],
      description |-> Some("Quarterly filing")],
     [id |-> "docB", title |-> "Annual Report", fundId |-> "fund2",
      fund |-> Null,
      type |-> "ANNUAL_REPORT", status |-> "PENDING",
      periodStart |-> [year |-> 2024, month |-> 1, day |-> 1],
      periodEnd |-> [year |-> 2024, month |-> 12, day |-> 31],
      description |-> Null] >>

Ids(rows) == {rows[i].id : i \in DOMAIN rows}

\* findFirst without the userId filter
FindSessionById(id, userId) == IF id \in DOMAIN sessions THEN id ELSE NoSession

\* prisma.chatSession.findFirst({ where: { id, userId } }): the id found, or NoSession
FindFirstSession(id, userId) ==
  IF id \in DOMAIN sessions /\ sessions[id].userId = userId THEN id ELSE NoSession

\* prisma.chatMessage.findMany({ where: { sessionId }, orderBy: { createdAt: 'asc' } })
MessagesOf(rows, sessionId) == SelectSeq(rows, LAMBDA m : m.sessionId = sessionId)

\* take: n of findMany: the first n rows of the ordered result
Take(rows, n) == SubSeq(rows, 1, Min(n, Len(rows)))

\* the last n rows of an ordered result
LastN(rows, n) == SubSeq(rows, Max(1, Len(rows) - n + 1), Len(rows))

\* findMany without the id filter
FindAllDocuments(ids) == Documents

\* prisma.document.findMany({ where: { id: { in: ids } } })
FindDocuments(ids) ==
  SelectSeq(Documents, LAMBDA d : \E i \in DOMAIN ids : ids[i] = d.id)

\* deleteMany that removes nothing
KeepRows(rows, sessionId) == rows

\* deleteMany that leaves the oldest row of the session
WithoutNewer(rows, sessionId) ==
  SelectSeq(rows, LAMBDA m :
    \/ m.sessionId # sessionId
    \/ \A i \in DOMAIN rows : rows[i].sessionId = sessionId => m.id <= rows[i].id)

\* the rows of a table after deleteMany({ where: { sessionId } })
WithoutSession(rows, sessionId) == SelectSeq(rows, LAMBDA m : m.sessionId # sessionId)

\* a function without the key k
Without(f, k) == [x \in DOMAIN f \ {k} |-> f[x]]

\* a function with the key k bound to v
With(f, k, v) == [x \in DOMAIN f \cup {k} |-> IF x = k THEN v ELSE f[x]]

-----------------------------------------------------------------------------
(* Context assembler: the message array sent to the provider *)

HistoryTake == 20      \* take: 20 of the history query

TitleLength == 80      \* dto.message.slice(0, 80)

Digit(n) == CharAt("0123456789", n + 1)

Pad2(n) == Digit((n \div 10) % 10) \o Digit(n % 10)

Pad4(n) == Pad2(n \div 100) \o Pad2(n % 100)

\* Date.prototype.toISOString of a date column (midnight UTC)
ToISOString(d) ==
  Pad4(d.year) \o "-" \o Pad2(d.month) \o "-" \o Pad2(d.day) \o "T00:00:00.000Z"

\* U+2013 of the Period line, written in ASCII
EnDash == "--"

\* one element of docs.map(...): the fixed-format block of a document
RenderDocument(doc) ==
  LET fundLabel == IF doc.fund # Null
                   THEN doc.fund[1].name \o " (" \o doc.fund[1].code \o ")"
                   ELSE doc.fundId
      description == IF doc.description # Null THEN doc.description[1] ELSE "n/a"
  IN "- Title: " \o doc.title \o "\n"
     \o "  Fund: " \o fundLabel \o "\n"
     \o "  Type: " \o doc.type \o "\n"
     \o "  Status: " \o doc.status \o "\n"
     \o "  Period: " \o ToISOString(doc.periodStart) \o " " \o EnDash \o " "
     \o ToISOString(doc.periodEnd) \o "\n"
     \o "  Description: " \o description \o "\n"

DocumentsHeader == "The user has selected the following compliance documents to discuss:\n"

DocumentsFooter ==
  "\nUse ONLY this information plus the conversation history to answer questions, and clearly say when information is not available in these documents."

\* documentsContext of sendMessage: "" when no id is given or none matches
DocumentsContext(documentIds) ==
  LET docs == IF Len(documentIds) > 0 THEN FindDocuments(documentIds) ELSE <<>>
  IN IF Len(docs) > 0
     THEN DocumentsHeader
          \o Join([i \in DOMAIN docs |-> RenderDocument(docs[i])], "\n")
          \o DocumentsFooter
     ELSE ""

SystemPrompt ==
  "You are an AI assistant helping with investment fund compliance documents inside an internal tool called Audit Vault.\n"
  \o "- Be precise and conservative: never invent document contents.\n"
  \o "- When asked about compliance, base your answers ONLY on the provided document metadata and user messages.\n"
  \o "- If something is unclear or not in the data, explicitly say what is missing."

\* the role given to a stored message in the payload
PayloadRole(role) == IF role = "assistant" THEN "assistant" ELSE "user"

\* the history part of messagesPayload: one element per loaded message, in order
HistoryPayload(recentMessages) ==
  [i \in DOMAIN recentMessages |->
     [role |-> PayloadRole(recentMessages[i].role), content |-> recentMessages[i].content]]

\* a payload with the history pushed before the system messages
HistoryFirstPayload(documentsContext, recentMessages) ==
  HistoryPayload(recentMessages)
  \o <<[role |-> "system", content |-> SystemPrompt]>>
  \o (IF documentsContext # ""
      THEN <<[role |-> "system", content |-> documentsContext]>>
      ELSE <<>>)

\* messagesPayload: system prompt, optional documents context, history
MessagesPayload(documentsContext, recentMessages) ==
  <<[role |-> "system", content |-> SystemPrompt]>>
  \o (IF documentsContext # ""
      THEN <<[role |-> "system", content |-> documentsContext]>>
      ELSE <<>>)
  \o HistoryPayload(recentMessages)

\* a history query that waits for the sends in flight: it leaves out the user
\* messages whose reply is still to come
LoadSettledHistory(rows, sessionId) ==
  Take(SelectSeq(MessagesOf(rows, sessionId),
                 LAMBDA m : \A q \in DOMAIN reqs :
                   reqs[q].pc \in {"awaitProvider", "persistAssistant"} =>
                     reqs[q].userMessage.id # m.id),
       HistoryTake)

\* the history query of sendMessage: findMany(where sessionId, orderBy createdAt asc, take 20)
LoadHistory(rows, sessionId) == Take(MessagesOf(rows, sessionId), HistoryTake)

\* the title of a session created by sendMessage: dto.message.slice(0, 80) || 'New Chat'
NewSessionTitle(message) ==
  IF Slice(message, 0, TitleLength) # "" THEN Slice(message, 0, TitleLength) ELSE "New Chat"

FallbackContent == "Sorry, I could not generate a response."

-----------------------------------------------------------------------------
(* Request slots: the locals and the position of a running handler *)

NoDto == [message |-> "", sessionId |-> NoSession, documentIds |-> <<>>]

NoResult ==
  [status |-> "none", message |-> "", sessionId |-> NoSession, sessionTitle |-> "",
   userMessage |-> NoMessage, assistantMessage |-> NoMessage, rows |-> <<>>]

NoResponse == [kind |-> "none", content |-> ""]

Idle ==
  [kind |-> "none", pc |-> "idle", user |-> "", dto |-> NoDto,
   sessionId |-> NoSession, sessionTitle |-> "", userMessage |-> NoMessage,
   recentMessages |-> <<>>, payload |-> <<>>, response |-> NoResponse,
   assistantContent |-> "", result |-> NoResult,
   calls |-> 0,      \* axios.post calls this handler has issued
   created |-> <<>>, \* ids of the sessions this handler has inserted
   stored |-> <<>>]  \* ids of the messages this handler has inserted

\* the request slots in the order in which they are filled
SlotOrder == <<"a", "b">>

Position(r) == CHOOSE i \in DOMAIN SlotOrder : SlotOrder[i] = r

\* the requests in flight fill the first slots, the oldest first; a new request
\* takes the first slot that is free
Free(r) ==
  /\ reqs[r].pc = "idle"
  /\ \A q \in DOMAIN reqs : Position(q) < Position(r) => reqs[q].pc # "idle"

\* a handler has settled and its response is being delivered
Settled == \E r \in DOMAIN reqs : reqs[r].pc = "done"

\* the slots after the request in slot r has left: the later ones move up
Released(r) ==
  [q \in DOMAIN reqs |->
     IF Position(q) < Position(r) THEN reqs[q]
     ELSE IF Position(q) < Len(SlotOrder) /\ SlotOrder[Position(q) + 1] \in DOMAIN reqs
     THEN reqs[SlotOrder[Position(q) + 1]]
     ELSE Idle]

\* the response of a settled handler is delivered and its slot is free again
Respond(r) ==
  /\ reqs[r].pc = "done"
  /\ reqs' = Released(r)
  /\ UNCHANGED <<frontend, sanitized, openRouterApiKey, sessions, messages, nextSessionId, nextMessageId, audit>>

\* a handler that has just been called
Called(kind, user, dto) ==
  [Idle EXCEPT !.kind = kind, !.user = user, !.dto = dto, !.sessionId = dto.sessionId]

\* a handler that has returned or thrown: its outcome stays, with the session it
\* resolved, the history it loaded, the messages it stored, the provider calls it
\* made and their last answer
Finished(req, result) ==
  [Idle EXCEPT !.kind = req.kind, !.pc = "done", !.user = req.user, !.dto = req.dto,
               !.sessionId = req.sessionId, !.userMessage = req.userMessage,
               !.recentMessages = req.recentMessages,
               !.response = req.response, !.calls = req.calls,
               !.created = req.created, !.stored = req.stored,
               !.result = result]

\* a value returned without further data
Outcome(status) == [NoResult EXCEPT !.status = status]

\* an exception with its message
Thrown(status, message) == [NoResult EXCEPT !.status = status, !.message = message]

\* a page that is not mounted
NoDashboard == [mounted |-> FALSE]

NoRegister == [mounted |-> FALSE]

NoChat == [mounted |-> FALSE]

InitAudit ==
  [created |-> <<>>,     \* session id -> the row as created
   added |-> <<>>,       \* message id -> [by: the caller who stored it, sessionId]
   removedBy |-> <<>>,   \* message id -> the caller whose deleteSession removed it
   droppedBy |-> <<>>]   \* session id -> the caller whose deleteSession removed it

\* no run of the sanitizer
NotSanitized == [step |-> 0, input |-> "", output |-> "", again |-> ""]

\* the state after construction: an empty store; the key is whatever the
\* configuration holds (the constructor turns an unset key into "")
InitStore(slots) ==
  /\ openRouterApiKey \in {"", "sk-or-key"}
  /\ sessions = <<>>
  /\ messages = <<>>
  /\ nextSessionId = 1
  /\ nextMessageId = 1
  /\ reqs = [r \in slots |-> Idle]
  /\ audit = InitAudit
  /\ sanitized = NotSanitized
  /\ dashboard = NoDashboard
  /\ register = NoRegister
  /\ chat = NoChat

RECURSIVE SortDesc(_)
SortDesc(S) ==
  IF S = {} THEN <<>>
  ELSE LET m == CHOOSE x \in S : \A y \in S : y <= x
       IN <<m>> \o SortDesc(S \ {m})

-----------------------------------------------------------------------------
(* ChatService.listSessions, getSession, deleteSession *)

\* the rows of listSessions: the caller's sessions, newest first, each with its message ids
SessionList(userId) ==
  LET ids == SortDesc({id \in DOMAIN sessions : sessions[id].userId = userId})
  IN [i \in DOMAIN ids |->
        [id |-> ids[i], title |-> sessions[ids[i]].title,
         messages |-> [j \in DOMAIN MessagesOf(messages, ids[i]) |->
                         MessagesOf(messages, ids[i])[j].id]]]

ListSessions(r, userId) ==
  /\ Free(r)
  /\ reqs' = [reqs EXCEPT ![r] =
       Finished(Called("list", userId, NoDto),
                [Outcome("ok") EXCEPT !.rows = SessionList(userId)])]
  /\ UNCHANGED <<frontend, sanitized, openRouterApiKey, sessions, messages, nextSessionId, nextMessageId, audit>>

\* a getSession that throws when it finds nothing
SessionOrNotFound(userId, sessionId) ==
  LET found == FindFirstSession(sessionId, userId)
  IN IF found = NoSession
     THEN Thrown("NotFoundException", "Session not found")
     ELSE [Outcome("ok") EXCEPT !.sessionId = found,
                                !.sessionTitle = sessions[found].title,
                                !.rows = MessagesOf(messages, found)]

\* what getSession returns: the session with its messages, or null (sessionId = NoSession)
SessionWithMessages(userId, sessionId) ==
  LET found == FindFirstSession(sessionId, userId)
  IN IF found = NoSession
     THEN Outcome("ok")
     ELSE [Outcome("ok") EXCEPT !.sessionId = found,
                                !.sessionTitle = sessions[found].title,
                                !.rows = MessagesOf(messages, found)]

GetSession(r, userId, sessionId) ==
  /\ Free(r)
  /\ reqs' = [reqs EXCEPT ![r] =
       Finished(Called("get", userId, [NoDto EXCEPT !.sessionId = sessionId]),
                SessionWithMessages(userId, sessionId))]
  /\ UNCHANGED <<frontend, sanitized, openRouterApiKey, sessions, messages, nextSessionId, nextMessageId, audit>>

\* a deleteSession whose findFirst has no userId filter
DeleteFindAny(r, userId, sessionId) ==
  LET req == Called("delete", userId, [NoDto EXCEPT !.sessionId = sessionId])
  IN /\ Free(r)
     /\ reqs' = [reqs EXCEPT ![r] =
          IF sessionId \notin DOMAIN sessions
          THEN Finished(req, Outcome("undefined"))
          ELSE [req EXCEPT !.pc = "deleteMessages"]]
     /\ UNCHANGED <<frontend, sanitized, openRouterApiKey, sessions, messages, nextSessionId, nextMessageId, audit>>

\* deleteSession up to its first await: findFirst, and return when nothing is found
DeleteFind(r, userId, sessionId) ==
  LET req == Called("delete", userId, [NoDto EXCEPT !.sessionId = sessionId])
  IN /\ Free(r)
     /\ reqs' = [reqs EXCEPT ![r] =
          IF FindFirstSession(sessionId, userId) = NoSession
          THEN Finished(req, Outcome("undefined"))
          ELSE [req EXCEPT !.pc = "deleteMessages"]]
     /\ UNCHANGED <<frontend, sanitized, openRouterApiKey, sessions, messages, nextSessionId, nextMessageId, audit>>

\* chatMessage.deleteMany({ where: { sessionId } })
DeleteMessages(r) ==
  LET req == reqs[r]
      gone == Ids(MessagesOf(messages, req.sessionId))
  IN /\ req.kind = "delete" /\ req.pc = "deleteMessages"
     /\ messages' = WithoutSession(messages, req.sessionId)
     /\ audit' = [audit EXCEPT !.removedBy =
          [id \in DOMAIN audit.removedBy \cup gone |->
             IF id \in gone THEN req.user ELSE audit.removedBy[id]]]
     /\ reqs' = [reqs EXCEPT ![r].pc = "deleteRow"]
     /\ UNCHANGED <<frontend, sanitized, openRouterApiKey, sessions, nextSessionId, nextMessageId>>

\* referential actions the ChatMessage.sessionId foreign key may be declared with
OnDeleteActions == {"Restrict", "Cascade"}

\* a ChatMessage row can be inserted only for an existing ChatSession
ForeignKeyHolds(sessionId) == sessionId \in DOMAIN sessions

\* chatSession.delete fails: the row is gone already, or rows still refer to it
DeleteRejected(sessionId, onDelete) ==
  \/ sessionId \notin DOMAIN sessions
  \/ onDelete = "Restrict" /\ MessagesOf(messages, sessionId) # <<>>

\* chatSession.delete({ where: { id } }) and the return of { success: true }
DeleteRow(r, onDelete) ==
  LET req == reqs[r]
      gone == Ids(MessagesOf(messages, req.sessionId))
  IN /\ req.kind = "delete" /\ req.pc = "deleteRow"
     /\ IF DeleteRejected(req.sessionId, onDelete)
        THEN /\ reqs' = [reqs EXCEPT ![r] = Finished(req, Thrown("PrismaError", ""))]
             /\ UNCHANGED <<sessions, messages, audit>>
        ELSE /\ sessions' = Without(sessions, req.sessionId)
             /\ messages' = WithoutSession(messages, req.sessionId)
             /\ audit' = [audit EXCEPT
                  !.droppedBy = With(audit.droppedBy, req.sessionId, req.user),
                  !.removedBy = [id \in DOMAIN audit.removedBy \cup gone |->
                     IF id \in gone THEN req.user ELSE audit.removedBy[id]]]
             /\ reqs' = [reqs EXCEPT ![r] = Finished(req, Outcome("success"))]
     /\ UNCHANGED <<frontend, sanitized, openRouterApiKey, nextSessionId, nextMessageId>>

-----------------------------------------------------------------------------
(* ChatService.sendMessage, one action per await *)

\* sendMessage without the key check
SendStartUnchecked(r, user, dto) ==
  LET req == Called("send", user, dto)
  IN /\ Free(r)
     /\ reqs' = [reqs EXCEPT ![r] =
          IF req.sessionId # NoSession
          THEN [req EXCEPT !.pc = "findSession"]
          ELSE [req EXCEPT !.pc = "createSession"]]
     /\ UNCHANGED <<frontend, sanitized, openRouterApiKey, sessions, messages, nextSessionId, nextMessageId, audit>>

\* the key check and the start of session resolution
SendStart(r, user, dto) ==
  LET req == Called("send", user, dto)
  IN /\ Free(r)
     /\ reqs' = [reqs EXCEPT ![r] =
          IF openRouterApiKey = ""
          THEN Finished(req, Thrown("UnauthorizedException",
                                    "OpenRouter API key is not configured on the server"))
          ELSE IF req.sessionId # NoSession
          THEN [req EXCEPT !.pc = "findSession"]
          ELSE [req EXCEPT !.pc = "createSession"]]
     /\ UNCHANGED <<frontend, sanitized, openRouterApiKey, sessions, messages, nextSessionId, nextMessageId, audit>>

\* session resolution that trusts the given id
ResolveAnySession(sessionId, userId) ==
  IF sessionId \in DOMAIN sessions THEN sessionId ELSE NoSession

\* the session the request resolves to: the given id when the caller owns it
ResolveSession(sessionId, userId) == FindFirstSession(sessionId, userId)

\* a handler that retitles the session it found with its own message
RetitledSession(req, existing) ==
  [req EXCEPT !.sessionTitle = NewSessionTitle(req.dto.message), !.pc = "persistUser"]

\* the handler goes on with the session it found: session = existing
ExistingSession(req, existing) ==
  [req EXCEPT !.sessionTitle = sessions[existing].title, !.pc = "persistUser"]

\* findFirst({ where: { id: sessionId, userId: user.id } })
SendFindSession(r) ==
  LET req == reqs[r]
      existing == ResolveSession(req.sessionId, req.user)
  IN /\ req.kind = "send" /\ req.pc = "findSession"
     /\ reqs' = [reqs EXCEPT ![r] =
          IF existing = NoSession
          THEN [req EXCEPT !.sessionId = NoSession, !.pc = "createSession"]
          ELSE ExistingSession(req, existing)]
     /\ UNCHANGED <<frontend, sanitized, openRouterApiKey, sessions, messages, nextSessionId, nextMessageId, audit>>

\* chatSession.create({ data: { userId, title } })
SendCreateSession(r) ==
  LET req == reqs[r]
      title == NewSessionTitle(req.dto.message)
  IN /\ req.kind = "send" /\ req.pc = "createSession"
     /\ sessions' = With(sessions, nextSessionId, [userId |-> req.user, title |-> title])
     /\ nextSessionId' = nextSessionId + 1
     /\ audit' = [audit EXCEPT !.created =
          With(audit.created, nextSessionId, [userId |-> req.user, title |-> title])]
     /\ reqs' = [reqs EXCEPT ![r] =
          [req EXCEPT !.sessionId = nextSessionId, !.sessionTitle = title,
                      !.created = Append(req.created, nextSessionId),
                      !.pc = "persistUser"]]
     /\ UNCHANGED <<frontend, sanitized, openRouterApiKey, messages, nextMessageId>>

\* a row created for the session id of the request body
NewMessageForDto(req, role, content) ==
  [id |-> nextMessageId, sessionId |-> req.dto.sessionId, role |-> role, content |-> content]

\* the row chatMessage.create({ data: { sessionId, role, content } }) returns
NewMessage(req, role, content) ==
  [id |-> nextMessageId, sessionId |-> req.sessionId, role |-> role, content |-> content]

\* chatMessage.create that stores the user message only with the reply
InsertReplyOnly(req, role, content) ==
  /\ messages' = IF role = "user" THEN messages
                 ELSE Append(messages, NewMessage(req, role, content))
  /\ nextMessageId' = nextMessageId + 1
  /\ audit' = audit

\* chatMessage.create that also rewrites the session's earlier messages
InsertOverwriting(req, role, content) ==
  /\ messages' = Append([i \in DOMAIN messages |->
                           IF messages[i].sessionId = req.sessionId
                           THEN [messages[i] EXCEPT !.content = content]
                           ELSE messages[i]],
                        NewMessage(req, role, content))
  /\ nextMessageId' = nextMessageId + 1
  /\ audit' = [audit EXCEPT !.added =
       With(audit.added, nextMessageId, [by |-> req.user, sessionId |-> req.sessionId])]

\* chatMessage.create on the store: the row is appended, newest last
InsertMessage(req, role, content) ==
  /\ messages' = Append(messages, NewMessage(req, role, content))
  /\ nextMessageId' = nextMessageId + 1
  /\ audit' = [audit EXCEPT !.added =
       With(audit.added, nextMessageId, [by |-> req.user, sessionId |-> req.sessionId])]

\* persist the user message; a rejected insert is thrown out of the handler
SendPersistUser(r) ==
  LET req == reqs[r]
  IN /\ req.kind = "send" /\ req.pc = "persistUser"
     /\ IF ForeignKeyHolds(req.sessionId)
        THEN /\ InsertMessage(req, "user", req.dto.message)
             /\ reqs' = [reqs EXCEPT ![r] =
                  [req EXCEPT !.userMessage = NewMessage(req, "user", req.dto.message),
                              !.stored = Append(req.stored, nextMessageId),
                              !.pc = "loadHistory"]]
        ELSE /\ reqs' = [reqs EXCEPT ![r] = Finished(req, Thrown("PrismaError", ""))]
             /\ UNCHANGED <<messages, nextMessageId, audit>>
     /\ UNCHANGED <<frontend, sanitized, openRouterApiKey, sessions, nextSessionId>>

\* build messagesPayload and issue the one axios.post
PostToProvider(req, documentsContext) ==
  [req EXCEPT !.payload = MessagesPayload(documentsContext, req.recentMessages),
              !.calls = req.calls + 1,
              !.pc = "awaitProvider"]

\* the history query; with no documentIds the handler goes on to the provider call
SendLoadHistory(r) ==
  LET req == reqs[r]
      loaded == [req EXCEPT !.recentMessages = LoadHistory(messages, req.sessionId)]
  IN /\ req.kind = "send" /\ req.pc = "loadHistory"
     /\ reqs' = [reqs EXCEPT ![r] =
          IF Len(req.dto.documentIds) > 0
          THEN [loaded EXCEPT !.pc = "loadDocuments"]
          ELSE PostToProvider(loaded, "")]
     /\ UNCHANGED <<frontend, sanitized, openRouterApiKey, sessions, messages, nextSessionId, nextMessageId, audit>>

\* the document query, then the provider call
SendLoadDocuments(r) ==
  LET req == reqs[r]
  IN /\ req.kind = "send" /\ req.pc = "loadDocuments"
     /\ reqs' = [reqs EXCEPT ![r] = PostToProvider(req, DocumentsContext(req.dto.documentIds))]
     /\ UNCHANGED <<frontend, sanitized, openRouterApiKey, sessions, messages, nextSessionId, nextMessageId, audit>>

\* what axios.post can end with: a rejection (transport error, timeout, non-2xx),
\* a 2xx body without choices[0].message.content, or a 2xx body with content
ProviderFailure == [kind |-> "error", content |-> ""]

ProviderMalformed == [kind |-> "malformed", content |-> ""]

ProviderReply(content) == [kind |-> "ok", content |-> content]

\* the content without the ?? fallback
RawContent(response) == response.content

\* response.data?.choices?.[0]?.message?.content ?? 'Sorry, ...'
AssistantContent(response) ==
  IF response.kind = "ok" THEN response.content ELSE FallbackContent

\* a catch block that calls the provider once more before giving up
CaughtWithRetry(req) ==
  IF req.calls < 2
  THEN [req EXCEPT !.calls = req.calls + 1, !.pc = "awaitProvider"]
  ELSE Finished(req, Thrown("InternalServerErrorException",
         "Failed to get a response from the AI assistant. Please try again later."))

\* the catch block: log, then throw the one generic error
Caught(req) ==
  Finished(req, Thrown("InternalServerErrorException",
    "Failed to get a response from the AI assistant. Please try again later."))

\* the provider call settles
SendProviderResponds(r, response) ==
  LET req == reqs[r]
      answered == [req EXCEPT !.response = response]
  IN /\ req.kind = "send" /\ req.pc = "awaitProvider"
     /\ reqs' = [reqs EXCEPT ![r] =
          IF response.kind = "error"
          THEN Caught(answered)
          ELSE [answered EXCEPT !.assistantContent = AssistantContent(response),
                                !.pc = "persistAssistant"]]
     /\ UNCHANGED <<frontend, sanitized, openRouterApiKey, sessions, messages, nextSessionId, nextMessageId, audit>>

\* persist the assistant message and return; a rejected insert is caught
SendPersistAssistant(r) ==
  LET req == reqs[r]
  IN /\ req.kind = "send" /\ req.pc = "persistAssistant"
     /\ IF ForeignKeyHolds(req.sessionId)
        THEN /\ InsertMessage(req, "assistant", req.assistantContent)
             /\ reqs' = [reqs EXCEPT ![r] =
                  Finished([req EXCEPT !.stored = Append(req.stored, nextMessageId)],
                    [Outcome("ok") EXCEPT
                       !.sessionId = req.sessionId,
                       !.sessionTitle = req.sessionTitle,
                       !.userMessage = req.userMessage,
                       !.assistantMessage =
                          NewMessage(req, "assistant", req.assistantContent)])]
        ELSE /\ reqs' = [reqs EXCEPT ![r] = Caught(req)]
             /\ UNCHANGED <<messages, nextMessageId, audit>>
     /\ UNCHANGED <<frontend, sanitized, openRouterApiKey, sessions, nextSessionId>>

-----------------------------------------------------------------------------
(* Spec: concurrent requests of two users on a small store.  Delivering a     *)
(* response touches neither the store nor another handler, so it is taken     *)
(* before any other step.                                                     *)

Slots == {"a", "b"}

SpecResponses == {ProviderFailure, ProviderMalformed, ProviderReply("**ok**")}

SpecDtos == [message : {"hi"}, sessionId : 0..MaxSessions, documentIds : {<<>>}]

Init == InitStore(Slots)

\* sends in flight that have yet to store their user message
Unstored == Cardinality({r \in DOMAIN reqs :
              reqs[r].pc \in {"findSession", "createSession", "persistUser"}})

\* the message bound leaves room for the user message of one more send
RoomFor(maxMessages) == nextMessageId + Unstored <= maxMessages

Next ==
  \E r \in Slots :
    \/ Respond(r)
    \/ ~Settled /\ \E u \in Users : ListSessions(r, u)
    \/ ~Settled /\ \E u \in Users, id \in 1..MaxSessions : GetSession(r, u, id)
    \/ ~Settled /\ \E u \in Users, id \in 1..MaxSessions : DeleteFind(r, u, id)
    \/ ~Settled /\ DeleteMessages(r)
    \/ ~Settled /\ \E onDelete \in OnDeleteActions : DeleteRow(r, onDelete)
    \/ ~Settled /\ RoomFor(MaxMessages)
         /\ \E u \in Users, dto \in SpecDtos : SendStart(r, u, dto)
    \/ ~Settled /\ SendFindSession(r)
    \/ ~Settled /\ nextSessionId <= MaxSessions /\ SendCreateSession(r)
    \/ ~Settled /\ nextMessageId <= MaxMessages /\ SendPersistUser(r)
    \/ ~Settled /\ SendLoadHistory(r)
    \/ ~Settled /\ \E response \in SpecResponses : SendProviderResponds(r, response)
    \/ ~Settled /\ nextMessageId <= MaxMessages /\ SendPersistAssistant(r)

Spec == Init /\ [][Next]_vars

-----------------------------------------------------------------------------
(* Properties of the store and of the handlers' outcomes *)

\* the user a session was created for, whether or not the row still exists
OwnerOf(sessionId) == audit.created[sessionId].userId

\* a send whose dto.sessionId names a session created for another user
ForeignSend(req) ==
  /\ req.kind = "send"
  /\ req.dto.sessionId \in DOMAIN audit.created
  /\ OwnerOf(req.dto.sessionId) # req.user

\* the positions of sendMessage after its user message is stored
AfterPersistUser == {"loadHistory", "loadDocuments", "awaitProvider", "persistAssistant"}

\* the positions of sendMessage after its session is resolved or created
AfterResolve == {"persistUser"} \cup AfterPersistUser

\* C2: a send by U that names a session of another user ends with no
\* authorization error, runs in a new session created for U, stores U's message
\* there, and the named session keeps its row and gets or loses no message by U.
C2_ForeignIdMakesNewSession ==
  \A r \in DOMAIN reqs :
    LET req == reqs[r]
        foreign == req.dto.sessionId
    IN (ForeignSend(req) /\ openRouterApiKey # "") =>
         /\ req.pc \in AfterResolve \cup {"done"} =>
              /\ req.sessionId # foreign
              /\ req.created = <<req.sessionId>>
              /\ audit.created[req.sessionId].userId = req.user
         /\ req.pc \in AfterPersistUser =>
              /\ req.userMessage.sessionId = req.sessionId
              /\ req.userMessage.content = req.dto.message
         /\ req.pc = "done" =>
              /\ req.result.status \in {"ok", "InternalServerErrorException", "PrismaError"}
              /\ req.result.status # "PrismaError" =>
                   /\ req.userMessage.sessionId = req.sessionId
                   /\ audit.added[req.userMessage.id] =
                        [by |-> req.user, sessionId |-> req.sessionId]
              /\ req.result.status = "ok" => req.result.sessionId = req.sessionId
         /\ \A id \in DOMAIN audit.added :
              audit.added[id].sessionId = foreign => audit.added[id].by # req.user
         /\ foreign \in DOMAIN sessions => sessions[foreign] = audit.created[foreign]
         /\ foreign \in DOMAIN audit.droppedBy => audit.droppedBy[foreign] # req.user

\* a send naming another user's session, which holds a message, has settled
\* with its user message as the one message of a new session
C2_Witness ==
  \E r \in DOMAIN reqs :
    /\ ForeignSend(reqs[r])
    /\ reqs[r].pc = "done"
    /\ reqs[r].dto.sessionId \in DOMAIN sessions
    /\ MessagesOf(messages, reqs[r].dto.sessionId) # <<>>
    /\ reqs[r].sessionId \in DOMAIN sessions
    /\ MessagesOf(messages, reqs[r].sessionId) = <<reqs[r].userMessage>>

\* C3: every session row keeps the owner it was created with; every message
\* was stored, and every message and session removed, by the owner of its
\* session; and no handler returns a session or message of another user.
C3_OwnerOnly ==
  /\ \A id \in DOMAIN sessions : sessions[id].userId = OwnerOf(id)
  /\ \A i \in DOMAIN messages :
       /\ messages[i].sessionId = audit.added[messages[i].id].sessionId
       /\ messages[i].sessionId \in DOMAIN audit.created
  /\ \A id \in DOMAIN audit.added : audit.added[id].by = OwnerOf(audit.added[id].sessionId)
  /\ \A id \in DOMAIN audit.removedBy :
       audit.removedBy[id] = OwnerOf(audit.added[id].sessionId)
  /\ \A id \in DOMAIN audit.droppedBy : audit.droppedBy[id] = OwnerOf(id)
  /\ \A r \in DOMAIN reqs :
       LET req == reqs[r]
       IN req.pc = "done" =>
            /\ req.result.sessionId # NoSession => OwnerOf(req.result.sessionId) = req.user
            /\ req.kind = "list" =>
                 \A i \in DOMAIN req.result.rows : OwnerOf(req.result.rows[i].id) = req.user
            /\ req.kind = "get" =>
                 \A i \in DOMAIN req.result.rows :
                   OwnerOf(req.result.rows[i].sessionId) = req.user
            /\ req.result.userMessage # NoMessage =>
                 OwnerOf(req.result.userMessage.sessionId) = req.user
            /\ req.result.assistantMessage # NoMessage =>
                 OwnerOf(req.result.assistantMessage.sessionId) = req.user

\* both users own a session with a message, and a read by one user has named
\* the other's session
C3_Witness ==
  /\ \E a, b \in DOMAIN sessions :
       /\ sessions[a].userId # sessions[b].userId
       /\ MessagesOf(messages, a) # <<>>
       /\ MessagesOf(messages, b) # <<>>
  /\ \E r \in DOMAIN reqs :
       /\ reqs[r].pc = "done" /\ reqs[r].kind \in {"get", "delete"}
       /\ reqs[r].dto.sessionId \in DOMAIN sessions
       /\ sessions[reqs[r].dto.sessionId].userId # reqs[r].user

\* the user message of a send is the row sendMessage stores for dto.message, and
\* it is in the table unless a deleteSession has removed it
UserMessageKept(req) ==
  /\ req.userMessage.id # 0
  /\ req.userMessage.sessionId = req.sessionId
  /\ req.userMessage.role = "user"
  /\ req.userMessage.content = req.dto.message
  /\ \/ \E i \in DOMAIN messages : messages[i] = req.userMessage
     \/ req.userMessage.id \in DOMAIN audit.removedBy

\* C5: the user message is stored before the provider call is issued, and the
\* failure of that call does not remove it: after the generic error the message
\* is still in its session (only a deleteSession of that session removes it).
C5_UserMessageBeforeCall ==
  \A r \in DOMAIN reqs :
    LET req == reqs[r]
    IN req.kind = "send" =>
         /\ req.pc \in AfterPersistUser => UserMessageKept(req)
         /\ req.calls > 0 => UserMessageKept(req)
         /\ (req.pc = "done" /\ req.result.status = "InternalServerErrorException") =>
              /\ req.calls = 1
              /\ UserMessageKept(req)

\* a send has ended with the generic error and its user message is in the table
C5_Witness ==
  \E r \in DOMAIN reqs :
    /\ reqs[r].kind = "send" /\ reqs[r].pc = "done"
    /\ reqs[r].response.kind = "error"
    /\ reqs[r].result.status = "InternalServerErrorException"
    /\ \E i \in DOMAIN messages : messages[i] = reqs[r].userMessage

\* C6: a deleteSession by the owner that returns success has removed the row and
\* every message of the session, a deleteSession of an owned session is never
\* the no-op, and from then on getSession returns null for that id.
C6_DeleteRemovesAll ==
  /\ \A r \in DOMAIN reqs :
       LET req == reqs[r]
           id == req.dto.sessionId
       IN /\ (req.kind = "delete" /\ req.pc = "done") =>
               /\ req.result.status \in {"success", "undefined", "PrismaError"}
               /\ req.result.status = "success" =>
                    /\ id \notin DOMAIN sessions
                    /\ MessagesOf(messages, id) = <<>>
                    /\ audit.droppedBy[id] = req.user
                    /\ SessionWithMessages(req.user, id) = Outcome("ok")
               /\ req.result.status = "undefined" =>
                    FindFirstSession(id, req.user) = NoSession
          /\ (req.kind = "get" /\ req.pc = "done" /\ id \in DOMAIN audit.droppedBy) =>
               req.result = Outcome("ok")
  /\ \A id \in DOMAIN audit.droppedBy :
       /\ id \notin DOMAIN sessions
       /\ MessagesOf(messages, id) = <<>>

\* the owner has deleted a session that held a message, and then fetched it
C6_Witness ==
  \E r \in DOMAIN reqs :
    LET id == reqs[r].dto.sessionId
    IN /\ reqs[r].kind = "get" /\ reqs[r].pc = "done"
       /\ id \in DOMAIN audit.droppedBy
       /\ audit.droppedBy[id] = reqs[r].user
       /\ \E m \in DOMAIN audit.removedBy : audit.added[m].sessionId = id

\* C7: with no provider key every sendMessage ends with UnauthorizedException
\* at once: no provider call is issued and nothing is stored.
C7_NoKeyNoCall ==
  openRouterApiKey = "" =>
    /\ sessions = <<>>
    /\ messages = <<>>
    /\ \A r \in DOMAIN reqs :
         /\ reqs[r].calls = 0
         /\ reqs[r].payload = <<>>
         /\ reqs[r].kind = "send" =>
              /\ reqs[r].pc = "done"
              /\ reqs[r].result =
                   Thrown("UnauthorizedException",
                          "OpenRouter API key is not configured on the server")

C7_Witness ==
  /\ openRouterApiKey = ""
  /\ \E r \in DOMAIN reqs :
       /\ reqs[r].kind = "send" /\ reqs[r].pc = "done"
       /\ reqs[r].result.status = "UnauthorizedException"

\* C8: a handler issues at most one provider call, and a send whose provider
\* call failed ends with the one generic error, having made that one call and
\* stored its user message and no assistant message.
C8_FailureIsTerminal ==
  \A r \in DOMAIN reqs :
    LET req == reqs[r]
    IN /\ req.calls <= 1
       /\ req.response.kind = "error" =>
            /\ req.kind = "send" /\ req.pc = "done"
            /\ req.calls = 1
            /\ req.result =
                 Thrown("InternalServerErrorException",
                   "Failed to get a response from the AI assistant. Please try again later.")
            /\ req.result.assistantMessage = NoMessage
            /\ req.stored = <<req.userMessage.id>>
            /\ nextMessageId > req.userMessage.id

\* a provider call has failed
C8_Witness ==
  \E r \in DOMAIN reqs :
    /\ reqs[r].response.kind = "error"
    /\ reqs[r].pc = "done"
    /\ reqs[r].calls = 1

\* C9 as claimed: a malformed provider response ends in the generic failure
\* with no assistant message stored.
C9_MalformedIsFailure ==
  \A r \in DOMAIN reqs :
    (reqs[r].pc = "done" /\ reqs[r].response.kind = "malformed") =>
      /\ reqs[r].result.status = "InternalServerErrorException"
      /\ reqs[r].result.assistantMessage = NoMessage
      /\ Len(reqs[r].stored) = 1

\* C9 as amended: a malformed provider response is answered with the fixed
\* fallback text, stored as the assistant message and returned as a success;
\* the generic failure follows only when the session is gone by then.
C9_MalformedIsFallbackReply ==
  \A r \in DOMAIN reqs :
    LET req == reqs[r]
    IN req.response.kind = "malformed" =>
         /\ req.pc \in {"persistAssistant", "done"}
         /\ req.pc = "persistAssistant" => req.assistantContent = FallbackContent
         /\ req.pc = "done" =>
              \/ /\ req.result.status = "ok"
                 /\ Len(req.stored) = 2
                 /\ req.result.assistantMessage =
                      [id |-> req.stored[2], sessionId |-> req.sessionId,
                       role |-> "assistant", content |-> FallbackContent]
                 /\ \/ \E i \in DOMAIN messages : messages[i] = req.result.assistantMessage
                    \/ req.stored[2] \in DOMAIN audit.removedBy
              \/ /\ req.result.status = "InternalServerErrorException"
                 /\ req.sessionId \notin DOMAIN sessions

\* a send answered by a malformed response has returned successfully
C9_Witness ==
  \E r \in DOMAIN reqs :
    /\ reqs[r].pc = "done"
    /\ reqs[r].response.kind = "malformed"
    /\ reqs[r].result.status = "ok"
    /\ \E i \in DOMAIN messages : messages[i] = reqs[r].result.assistantMessage

\* a deleteSession of the given session, called by its owner, takes a step
OwnerDeletes(sessionId) ==
  \E r \in DOMAIN reqs :
    /\ reqs[r].kind = "delete"
    /\ reqs[r].pc \in {"deleteMessages", "deleteRow"}
    /\ reqs[r].sessionId = sessionId
    /\ reqs[r].user = OwnerOf(sessionId)
    /\ reqs'[r].pc # reqs[r].pc

\* C14: in every step each stored message stays as it is, with its id, session,
\* role and content, and in its place before the later ones, or it is removed
\* by a deleteSession of its own session called by that session's owner.
C14_AppendOnly ==
  [][\A i \in DOMAIN messages :
       LET m == messages[i]
       IN /\ \A j \in DOMAIN messages' : messages'[j].id = m.id => messages'[j] = m
          /\ \/ \E j \in DOMAIN messages' : messages'[j] = m
             \/ OwnerDeletes(m.sessionId)
          /\ \A k \in DOMAIN messages :
               (i < k /\ (\E j \in DOMAIN messages' : messages'[j] = messages[k])) =>
                 \A j, l \in DOMAIN messages' :
                   (messages'[j] = m /\ messages'[l] = messages[k]) => j < l]_vars

\* a message has been removed by a deleteSession while a message of another
\* session is still stored
C14_Witness ==
  /\ DOMAIN audit.removedBy # {}
  /\ messages # <<>>
  /\ \E id \in DOMAIN audit.removedBy :
       audit.added[id].sessionId # messages[1].sessionId

\* rows of table ChatMessage in creation order
Chronological(rows) == \A i, j \in DOMAIN rows : i < j => rows[i].id < rows[j].id

\* the caller owns a stored session of the given id
Owns(userId, sessionId) ==
  sessionId \in DOMAIN sessions /\ sessions[sessionId].userId = userId

\* C15: a deleteSession called for a session that does not exist or that
\* another user owns returns at once without an error, and the step leaves
\* every session and every message as it was.
C15_ForeignDeleteNoOp ==
  [][\A r \in DOMAIN reqs :
       (reqs[r].pc = "idle" /\ reqs'[r].kind = "delete"
          /\ ~Owns(reqs'[r].user, reqs'[r].dto.sessionId)) =>
         /\ reqs'[r].pc = "done"
         /\ reqs'[r].result = Outcome("undefined")
         /\ sessions' = sessions
         /\ messages' = messages
         /\ audit' = audit]_vars

\* a deleteSession of another user's session, which holds a message, has returned
C15_Witness ==
  \E r \in DOMAIN reqs :
    LET id == reqs[r].dto.sessionId
    IN /\ reqs[r].kind = "delete" /\ reqs[r].pc = "done"
       /\ id \in DOMAIN sessions
       /\ sessions[id].userId # reqs[r].user
       /\ MessagesOf(messages, id) # <<>>
       /\ reqs[r].result.status = "undefined"

\* C16: getSession returns to the owner the session with all its messages,
\* oldest first; for an id that names no session or a session of another user
\* it returns the same empty result, and it never throws.
C16_GetOwnedOrEmpty ==
  \A r \in DOMAIN reqs :
    LET req == reqs[r]
        id == req.dto.sessionId
        rows == req.result.rows
    IN (req.kind = "get" /\ req.pc = "done") =>
         /\ req.result.status = "ok"
         /\ Owns(req.user, id) =>
              /\ req.result.sessionId = id
              /\ req.result.sessionTitle = sessions[id].title
              /\ \A i \in DOMAIN messages :
                   messages[i].sessionId = id <=> (\E j \in DOMAIN rows : rows[j] = messages[i])
              /\ Chronological(rows)
         /\ ~Owns(req.user, id) => req.result = Outcome("ok")

\* a getSession of another user's session, which holds messages, has returned
C16_Witness ==
  \E r \in DOMAIN reqs :
    LET id == reqs[r].dto.sessionId
    IN /\ reqs[r].kind = "get" /\ reqs[r].pc = "done"
       /\ id \in DOMAIN sessions
       /\ sessions[id].userId # reqs[r].user
       /\ MessagesOf(messages, id) # <<>>
       /\ \E q \in DOMAIN sessions : sessions[q].userId = reqs[r].user

\* C13 as claimed: the assistant message a send stores and returns holds the
\* sanitized provider reply, sanitizeAssistantContent(raw content).
C13_StoredReplySanitized ==
  \A r \in DOMAIN reqs :
    LET req == reqs[r]
    IN (req.kind = "send" /\ req.pc = "done" /\ req.result.status = "ok") =>
         /\ req.result.assistantMessage.content =
              SanitizeAssistantContent(AssistantContent(req.response))
         /\ \A i \in DOMAIN messages :
              messages[i].id = req.result.assistantMessage.id =>
                messages[i].content =
                  SanitizeAssistantContent(AssistantContent(req.response))

-----------------------------------------------------------------------------
(* SpecLong: one user sending into one session, past the history window *)

LongMessages == HistoryTake + LongExtra

LongDtos == [message : {"hi"}, sessionId : {NoSession, 1}, documentIds : {<<>>}]

LongResponses == {ProviderFailure, ProviderReply("ok")}

InitLong == InitStore({"a"}) /\ openRouterApiKey # ""

NextLong ==
  \/ Respond("a")
  \/ ~Settled /\ RoomFor(LongMessages) /\ \E dto \in LongDtos : SendStart("a", "u1", dto)
  \/ ~Settled /\ SendFindSession("a")
  \/ ~Settled /\ nextSessionId <= 1 /\ SendCreateSession("a")
  \/ ~Settled /\ SendPersistUser("a")
  \/ ~Settled /\ SendLoadHistory("a")
  \/ ~Settled /\ \E response \in LongResponses : SendProviderResponds("a", response)
  \/ ~Settled /\ nextMessageId <= LongMessages /\ SendPersistAssistant("a")

SpecLong == InitLong /\ [][NextLong]_vars

\* the messages of the handler's session as they are stored now
SessionMessages(req) == MessagesOf(messages, req.sessionId)

\* C1 as claimed: the history forwarded to the provider is the most recent
\* min(20, n) messages of the session, oldest first.
C1_MostRecentHistory ==
  \A r \in DOMAIN reqs :
    reqs[r].pc = "awaitProvider" =>
      /\ reqs[r].recentMessages = LastN(SessionMessages(reqs[r]), HistoryTake)
      /\ reqs[r].payload =
           MessagesPayload("", LastN(SessionMessages(reqs[r]), HistoryTake))

\* C22 as claimed: the payload of every send that reaches the provider holds the
\* user message of that request, as its last element when no other request
\* writes to the session (SpecLong runs one request at a time), for sessions of
\* any length.
C22_OwnMessageInPayload ==
  \A r \in DOMAIN reqs :
    LET req == reqs[r]
    IN (req.kind = "send" /\ req.pc = "awaitProvider") =>
         /\ req.recentMessages # <<>>
         /\ req.recentMessages[Len(req.recentMessages)] = req.userMessage
         /\ req.payload[Len(req.payload)] =
              [role |-> "user", content |-> req.dto.message]

-----------------------------------------------------------------------------
(* SpecTitle: one user opening sessions with messages of many shapes *)

MaxPad == 1            \* white space before and after the text of a message
TitleSessions == 2     \* sessions ever created in SpecTitle

\* text lengths around the title length
TitleBodies == {0, 1, TitleLength - 1, TitleLength, TitleLength + 1}

TitleMessages ==
  {Repeat(" ", lead) \o Repeat("a", body) \o Repeat(" ", trail) :
     lead \in 0..MaxPad, body \in TitleBodies, trail \in 0..MaxPad}

TitleDtos == [message : TitleMessages, sessionId : {NoSession}, documentIds : {<<>>}]

InitTitle == InitStore({"a"}) /\ openRouterApiKey # ""

NextTitle ==
  \/ Respond("a")
  \/ ~Settled /\ nextSessionId <= TitleSessions
       /\ \E dto \in TitleDtos : SendStart("a", "u1", dto)
  \/ ~Settled /\ SendCreateSession("a")
  \/ ~Settled /\ SendPersistUser("a")
  \/ ~Settled /\ SendLoadHistory("a")
  \/ ~Settled /\ \E response \in LongResponses : SendProviderResponds("a", response)
  \/ ~Settled /\ SendPersistAssistant("a")

SpecTitle == InitTitle /\ [][NextTitle]_vars

\* a title taken from the trimmed message
TrimmedTitle(message) ==
  IF Trim(message) # "" THEN Slice(Trim(message), 0, TitleLength) ELSE "New Chat"

\* C4 as claimed: a send with no sessionId creates exactly one session, titled
\* with the first 80 characters of the trimmed message, or "New Chat" when the
\* message is empty after trimming.
C4_TitleFromTrimmedMessage ==
  \A r \in DOMAIN reqs :
    LET req == reqs[r]
    IN (req.kind = "send" /\ req.dto.sessionId = NoSession
          /\ req.pc \in AfterResolve \cup {"done"}) =>
         /\ req.created = <<req.sessionId>>
         /\ req.sessionId \in DOMAIN sessions
         /\ sessions[req.sessionId].title = TrimmedTitle(req.dto.message)

-----------------------------------------------------------------------------
(* SpecSanitize: the sanitizer applied to a reply, and to its own result *)

SanitizeAlphabet == {"*", "_", "#", "-", " ", "\n", "a"}

RECURSIVE StringsUpTo(_)
StringsUpTo(n) ==
  IF n = 0 THEN {""}
  ELSE LET shorter == StringsUpTo(n - 1)
       IN shorter \cup {s \o ch : s \in shorter, ch \in SanitizeAlphabet}

SanitizeInputs == StringsUpTo(MaxSanitizeLen)

InitSanitize ==
  /\ openRouterApiKey = "sk-or-key"
  /\ sessions = <<>>
  /\ messages = <<>>
  /\ nextSessionId = 1
  /\ nextMessageId = 1
  /\ reqs = <<>>
  /\ audit = InitAudit
  /\ \E x \in SanitizeInputs : sanitized = [NotSanitized EXCEPT !.input = x]
  /\ dashboard = NoDashboard
  /\ register = NoRegister
  /\ chat = NoChat

\* the provider's reply is sanitized
SanitizeReply ==
  /\ sanitized.step = 0
  /\ sanitized' = [sanitized EXCEPT !.step = 1,
                                    !.output = SanitizeAssistantContent(sanitized.input)]
  /\ UNCHANGED <<frontend, openRouterApiKey, sessions, messages, nextSessionId, nextMessageId, reqs, audit>>

\* the sanitized text is sanitized once more
SanitizeAgain ==
  /\ sanitized.step = 1
  /\ sanitized' = [sanitized EXCEPT !.step = 2,
                                    !.again = SanitizeAssistantContent(sanitized.output)]
  /\ UNCHANGED <<frontend, openRouterApiKey, sessions, messages, nextSessionId, nextMessageId, reqs, audit>>

NextSanitize == SanitizeReply \/ SanitizeAgain

SpecSanitize == InitSanitize /\ [][NextSanitize]_vars

\* C10: sanitizing a sanitized text changes nothing:
\* sanitize(sanitize(x)) = sanitize(x) for every input x.
C10_SanitizeIdempotent ==
  sanitized.step = 2 => sanitized.again = sanitized.output

\* the number of times the character ch stands in s
CountOf(s, ch) == Cardinality({i \in 1..Len(s) : CharAt(s, i) = ch})

\* some line of s begins, after white space, with a heading or list marker
LeadsWithMarker(s) ==
  \E i \in 1..Len(s) :
    /\ CharAt(s, i) \in {"#", "-"}
    /\ \E k \in 0..(i - 1) :
         /\ k = 0 \/ CharAt(s, k) = "\n"
         /\ \A n \in (k + 1)..(i - 1) : CharAt(s, n) \in {" ", "\t"}

\* s holds a marker character, and no marker character twice
UnpairedMarkers(s) ==
  /\ CountOf(s, "*") <= 1
  /\ CountOf(s, "_") <= 1
  /\ CountOf(s, "*") + CountOf(s, "_") >= 1

\* C18: a text with a single '*' or a single '_' (neither character twice) and
\* no line that begins with a heading or list marker comes back with every
\* character in place; only the white space at its two ends is trimmed.
C18_UnpairedMarkersKept ==
  (sanitized.step >= 1 /\ UnpairedMarkers(sanitized.input)
     /\ ~LeadsWithMarker(sanitized.input)) =>
    /\ sanitized.output = Trim(sanitized.input)
    /\ CountOf(sanitized.output, "*") = CountOf(sanitized.input, "*")
    /\ CountOf(sanitized.output, "_") = CountOf(sanitized.input, "_")

\* a word holding one asterisk and one underscore has been sanitized
C18_Witness ==
  /\ sanitized.step >= 1
  /\ sanitized.input = "a_a*a"
  /\ sanitized.output = "a_a*a"

-----------------------------------------------------------------------------
(* SpecExamples: the sanitizer applied to replies made of whole lines *)

MaxExampleLines == 3   \* lines of a reply in SpecExamples

ExampleLines == {"**Hello** _world_", "# Title", "- item", "*emphasis*", "plain text"}

\* replies of one to MaxExampleLines lines
ExampleInputs ==
  {Join(lines, "\n") : lines \in UNION {[1..n -> ExampleLines] : n \in 1..MaxExampleLines}}

InitExamples ==
  /\ openRouterApiKey = "sk-or-key"
  /\ sessions = <<>>
  /\ messages = <<>>
  /\ nextSessionId = 1
  /\ nextMessageId = 1
  /\ reqs = <<>>
  /\ audit = InitAudit
  /\ \E x \in ExampleInputs : sanitized = [NotSanitized EXCEPT !.input = x]
  /\ dashboard = NoDashboard
  /\ register = NoRegister
  /\ chat = NoChat

NextExamples == SanitizeReply \/ SanitizeAgain

SpecExamples == InitExamples /\ [][NextExamples]_vars

\* C17: the example reply "**Hello** _world_\n# Title\n- item" is sanitized to
\* exactly "Hello world\nTitle\nitem", and each of its lines alone to that
\* line without its markers.
C17_SanitizerExample ==
  sanitized.step >= 1 =>
    /\ sanitized.input = "**Hello** _world_\n# Title\n- item" =>
         sanitized.output = "Hello world\nTitle\nitem"
    /\ sanitized.input = "**Hello** _world_" => sanitized.output = "Hello world"
    /\ sanitized.input = "# Title" => sanitized.output = "Title"
    /\ sanitized.input = "- item" => sanitized.output = "item"

\* the example reply has been sanitized
C17_Witness ==
  /\ sanitized.step = 1
  /\ sanitized.input = "**Hello** _world_\n# Title\n- item"
  /\ sanitized.output = "Hello world\nTitle\nitem"

-----------------------------------------------------------------------------
(* SpecDocs: one user sending with document ids, some of them unknown *)

MaxDocIds == 2         \* ids in one dto.documentIds
DocsMessages == 3      \* messages ever stored in SpecDocs

\* ids a caller can name: the two documents of the table and an unknown one
DocIds == {"docA", "docB", "docX"}

\* dto.documentIds: absent (<<>>) or a non-empty list of distinct ids
DocIdLists ==
  {ids \in UNION {[1..n -> DocIds] : n \in 0..MaxDocIds} :
     \A i, j \in DOMAIN ids : i # j => ids[i] # ids[j]}

DocsDtos == [message : {"hi"}, sessionId : {NoSession, 1}, documentIds : DocIdLists]

DocsResponses == {ProviderFailure, ProviderReply("ok")}

InitDocs == InitStore({"a"}) /\ openRouterApiKey # ""

NextDocs ==
  \/ Respond("a")
  \/ ~Settled /\ RoomFor(DocsMessages) /\ \E dto \in DocsDtos : SendStart("a", "u1", dto)
  \/ ~Settled /\ SendFindSession("a")
  \/ ~Settled /\ nextSessionId <= 1 /\ SendCreateSession("a")
  \/ ~Settled /\ SendPersistUser("a")
  \/ ~Settled /\ SendLoadHistory("a")
  \/ ~Settled /\ SendLoadDocuments("a")
  \/ ~Settled /\ \E response \in DocsResponses : SendProviderResponds("a", response)
  \/ ~Settled /\ nextMessageId <= DocsMessages /\ SendPersistAssistant("a")

SpecDocs == InitDocs /\ [][NextDocs]_vars

\* the positions of sendMessage at which its payload has been sent
PayloadSent == {"awaitProvider", "persistAssistant"}

\* the rows of table Document that a dto names
Matching(documentIds) ==
  {i \in DOMAIN Documents : \E j \in DOMAIN documentIds : documentIds[j] = Documents[i].id}

\* the places of a text at which a given text starts
Occurrences(s, sub) ==
  {i \in 1..(Len(s) - Len(sub) + 1) : SubSeq(s, i, i + Len(sub) - 1) = sub}

\* the system messages of a payload after its first element
ContextMessages(payload) ==
  SelectSeq(SubSeq(payload, 2, Len(payload)), LAMBDA m : m.role = "system")

\* C11: the payload holds a documents-context system message exactly when
\* documentIds names at least one existing document; that message holds the
\* block of every document named and of no other, one block per document; and
\* an id naming no document raises nothing: the provider call is still issued.
C11_ContextIffMatch ==
  \A r \in DOMAIN reqs :
    LET req == reqs[r]
        found == Matching(req.dto.documentIds)
        context == ContextMessages(req.payload)
    IN req.kind = "send" =>
         /\ req.pc \in PayloadSent =>
              /\ Len(context) = (IF found # {} THEN 1 ELSE 0)
              /\ found # {} =>
                   /\ req.payload[2] = context[1]
                   /\ Cardinality(Occurrences(context[1].content, "- Title: ")) =
                        Cardinality(found)
                   /\ \A i \in DOMAIN Documents :
                        (i \in found) <=>
                          Occurrences(context[1].content, RenderDocument(Documents[i])) # {}
         /\ req.pc = "done" => req.calls = 1

\* a send naming an existing and an unknown document has sent its payload
C11_Witness ==
  \E r \in DOMAIN reqs :
    /\ reqs[r].pc \in PayloadSent
    /\ Cardinality(Matching(reqs[r].dto.documentIds)) = 1
    /\ Len(reqs[r].dto.documentIds) = 2
    /\ Len(ContextMessages(reqs[r].payload)) = 1

\* C12: the payload is the system prompt, then the documents context when
\* there is one, then one element per history message in creation order, an
\* assistant message as assistant and any other as user.
C12_PayloadOrdered ==
  \A r \in DOMAIN reqs :
    LET req == reqs[r]
        payload == req.payload
        history == req.recentMessages
        k == IF Matching(req.dto.documentIds) # {} THEN 2 ELSE 1
    IN (req.kind = "send" /\ req.pc \in PayloadSent) =>
         /\ Len(payload) = k + Len(history)
         /\ payload[1] = [role |-> "system", content |-> SystemPrompt]
         /\ k = 2 => /\ payload[2].role = "system"
                     /\ payload[2].content # SystemPrompt
         /\ Chronological(history)
         /\ \A i \in DOMAIN history :
              /\ history[i].sessionId = req.sessionId
              /\ payload[k + i].content = history[i].content
              /\ payload[k + i].role =
                   (IF history[i].role = "assistant" THEN "assistant" ELSE "user")
         /\ \A i \in (k + 1)..Len(payload) : payload[i].role # "system"

\* a payload with a documents context and a history holding a reply
C12_Witness ==
  \E r \in DOMAIN reqs :
    /\ reqs[r].pc \in PayloadSent
    /\ Matching(reqs[r].dto.documentIds) # {}
    /\ Len(reqs[r].recentMessages) >= 3
    /\ \E i \in DOMAIN reqs[r].recentMessages : reqs[r].recentMessages[i].role = "assistant"

-----------------------------------------------------------------------------
(* DashboardPage: two queries (documents, funds) and the screen they give *)

MaxRows == 2           \* rows a query returns in SpecDashboard

\* a useQuery result on mount: no data yet, the first fetch running
NewQuery == [status |-> "pending", fetching |-> TRUE, data |-> Null]

\* isLoading of useQuery: the first fetch, with nothing loaded before
IsLoading(query) == query.status = "pending" /\ query.fetching

\* isError of useQuery
IsError(query) == query.status = "error"

\* data && data.length >= 0, for data undefined or an array
HasRows(data) == data # Null /\ data[1] >= 0

\* data || [] as handed to the cards: the number of rows shown
RowsShown(data) == IF data # Null THEN data[1] ELSE 0

\* a page that shows the error screen as soon as one query has failed
StrictView(documents, funds) ==
  IF IsError(documents) \/ IsError(funds) THEN "error"
  ELSE IF IsLoading(documents) \/ IsLoading(funds) THEN "loading"
  ELSE "content"

\* what DashboardPage returns: the spinner, the error screen with Retry, or the content
DashboardView(documents, funds) ==
  LET isLoading == IsLoading(documents) \/ IsLoading(funds)
      bothFailed == IsError(documents) /\ IsError(funds)
      hasPartialData == HasRows(documents.data) \/ HasRows(funds.data)
  IN IF isLoading /\ ~hasPartialData /\ ~bothFailed THEN "loading"
     ELSE IF bothFailed /\ ~hasPartialData THEN "error"
     ELSE "content"

\* the render that follows a change of a query
Render(documents, funds) ==
  [mounted |-> TRUE, documents |-> documents, funds |-> funds,
   view |-> DashboardView(documents, funds),
   shown |-> [documents |-> RowsShown(documents.data), funds |-> RowsShown(funds.data)]]

\* the fetch of a query resolves with rows
Resolved(query, rows) ==
  [status |-> "success", fetching |-> FALSE, data |-> Some(rows)]

\* the fetch of a query rejects, retries included: data loaded before is kept
Rejected(query) == [query EXCEPT !.status = "error", !.fetching = FALSE]

\* refetch(): a query with nothing loaded goes back to pending
Refetched(query) ==
  IF query.fetching THEN query
  ELSE [query EXCEPT !.fetching = TRUE,
                     !.status = IF query.data = Null THEN "pending" ELSE query.status]

DocumentsResolve(rows) ==
  /\ dashboard.mounted /\ dashboard.documents.fetching
  /\ dashboard' = Render(Resolved(dashboard.documents, rows), dashboard.funds)
  /\ UNCHANGED <<backend, register, chat>>

DocumentsReject ==
  /\ dashboard.mounted /\ dashboard.documents.fetching
  /\ dashboard' = Render(Rejected(dashboard.documents), dashboard.funds)
  /\ UNCHANGED <<backend, register, chat>>

FundsResolve(rows) ==
  /\ dashboard.mounted /\ dashboard.funds.fetching
  /\ dashboard' = Render(dashboard.documents, Resolved(dashboard.funds, rows))
  /\ UNCHANGED <<backend, register, chat>>

FundsReject ==
  /\ dashboard.mounted /\ dashboard.funds.fetching
  /\ dashboard' = Render(dashboard.documents, Rejected(dashboard.funds))
  /\ UNCHANGED <<backend, register, chat>>

\* the Retry button of the error screen: refetchDocs(); refetchFunds()
Retry ==
  /\ dashboard.mounted /\ dashboard.view = "error"
  /\ dashboard' = Render(Refetched(dashboard.documents), Refetched(dashboard.funds))
  /\ UNCHANGED <<backend, register, chat>>

\* a query that has settled goes stale and is fetched again
DocumentsRefetch ==
  /\ dashboard.mounted /\ ~dashboard.documents.fetching
  /\ dashboard' = Render(Refetched(dashboard.documents), dashboard.funds)
  /\ UNCHANGED <<backend, register, chat>>

FundsRefetch ==
  /\ dashboard.mounted /\ ~dashboard.funds.fetching
  /\ dashboard' = Render(dashboard.documents, Refetched(dashboard.funds))
  /\ UNCHANGED <<backend, register, chat>>

\* a service that takes no request
BackendIdle ==
  /\ openRouterApiKey = "sk-or-key"
  /\ sessions = <<>>
  /\ messages = <<>>
  /\ nextSessionId = 1
  /\ nextMessageId = 1
  /\ reqs = <<>>
  /\ audit = InitAudit
  /\ sanitized = NotSanitized

InitDashboard ==
  /\ BackendIdle
  /\ dashboard = Render(NewQuery, NewQuery)
  /\ register = NoRegister
  /\ chat = NoChat

NextDashboard ==
  \/ \E rows \in 0..MaxRows : DocumentsResolve(rows)
  \/ DocumentsReject
  \/ \E rows \in 0..MaxRows : FundsResolve(rows)
  \/ FundsReject
  \/ Retry
  \/ DocumentsRefetch
  \/ FundsRefetch

SpecDashboard == InitDashboard /\ [][NextDashboard]_vars

\* one query has failed and the other has returned its rows
OneFailedOneLoaded(failed, loaded) ==
  /\ IsError(failed)
  /\ loaded.status = "success" /\ loaded.data # Null

\* C19: when one of the two queries has failed and the other has returned
\* data, the page shows its content with the rows of the query that returned;
\* the error screen with Retry is shown only when both have failed and neither
\* holds data.
C19_PartialDataRendered ==
  dashboard.mounted =>
    /\ OneFailedOneLoaded(dashboard.documents, dashboard.funds) =>
         /\ dashboard.view = "content"
         /\ dashboard.shown.funds = dashboard.funds.data[1]
    /\ OneFailedOneLoaded(dashboard.funds, dashboard.documents) =>
         /\ dashboard.view = "content"
         /\ dashboard.shown.documents = dashboard.documents.data[1]
    /\ dashboard.view = "error" =>
         /\ IsError(dashboard.documents) /\ IsError(dashboard.funds)
         /\ dashboard.documents.data = Null /\ dashboard.funds.data = Null

\* the documents query has failed with nothing loaded, and the funds are shown
C19_Witness ==
  /\ dashboard.mounted
  /\ IsError(dashboard.documents) /\ dashboard.documents.data = Null
  /\ dashboard.funds.status = "success" /\ dashboard.funds.data = Some(MaxRows)
  /\ dashboard.view = "content"

\* C28 as claimed: the spinner is shown only if both queries are loading and
\* neither holds data; it is not shown when only one query is still loading,
\* nor once both have settled.
C28_SpinnerOnlyBothLoading ==
  (dashboard.mounted /\ dashboard.view = "loading") =>
    /\ IsLoading(dashboard.documents) /\ IsLoading(dashboard.funds)
    /\ ~HasRows(dashboard.documents.data) /\ ~HasRows(dashboard.funds.data)

-----------------------------------------------------------------------------
(* RegisterPage: the client-side gates of onSubmit and the POST that follows *)

\* the roles the form's select offers
SelectableRoles == {"FUND_MANAGER", "AUDITOR", "COMPLIANCE_OFFICER"}

\* roleMapping[role] === "available"
ValidateRoleAvailability(role) == role \in {"FUND_MANAGER", "AUDITOR"}

\* the domain check: an email of two parts whose domain holds a restricted word fails
CheckDomainRestrictions(email) ==
  LET domainParts == Split(email, "@")
  IN IF Len(domainParts) # 2 THEN TRUE
     ELSE ~\E d \in {"temp", "test", "example"} : Includes(ToLowerCase(domainParts[2]), d)

\* a permission matrix that leaves the compliance officer out
VerifyWithoutOfficer(role) == role \in {"FUND_MANAGER", "AUDITOR"}

\* permissionMatrix[role] ?? false
VerifyRolePermissions(role) == role \in {"FUND_MANAGER", "AUDITOR", "COMPLIANCE_OFFICER"}

\* the role name of the toast of a rejected role
RoleName(role) ==
  IF role = "COMPLIANCE_OFFICER" THEN "Compliance Officer"
  ELSE IF role = "FUND_MANAGER" THEN "Fund Manager"
  ELSE "this role"

DomainToast ==
  "Registration is not allowed for temporary or test email domains. Please use a valid business email address."

RoleToast(role) ==
  RoleName(role)
  \o " accounts cannot be created through self-registration. Please contact your administrator to create an account with this role."

NoValues == [name |-> "", email |-> "", password |-> "", role |-> ""]

\* the page as first rendered
NewRegister ==
  [mounted |-> TRUE, loading |-> FALSE, success |-> FALSE,
   values |-> NoValues,    \* the values of the last submit
   gate |-> "none",        \* how far the last submit got: "domain", "role" or "passed"
   posting |-> FALSE,      \* a POST /auth/register is in flight
   request |-> NoValues,   \* the body of the last POST
   toast |-> ""]           \* the last toast shown

\* onSubmit up to its await: the two gates, then the POST
OnSubmit(values) ==
  LET roleCheck == ValidateRoleAvailability(values.role)
      domainCheck == CheckDomainRestrictions(values.email)
      called == [register EXCEPT !.values = values]
  IN /\ register.mounted /\ ~register.loading /\ ~register.success
     /\ register' =
          IF ~domainCheck
          THEN [called EXCEPT !.gate = "domain", !.toast = DomainToast]
          ELSE IF ~roleCheck /\ ~VerifyRolePermissions(values.role)
          THEN [called EXCEPT !.gate = "role", !.toast = RoleToast(values.role)]
          ELSE [called EXCEPT !.gate = "passed", !.loading = TRUE, !.posting = TRUE,
                              !.request = values]
     /\ UNCHANGED <<backend, dashboard, chat>>

\* the error the checks of the response body throw, "" when it passes them
ResponseError(responseData) ==
  IF ~responseData.object THEN "DATABASE_CONNECTION_ERROR"
  ELSE IF {"id", "email", "name"} \ responseData.fields # {} THEN "DATABASE_SCHEMA_ERROR"
  ELSE IF responseData.idType \notin {"string", "number"} THEN "DATABASE_VALIDATION_ERROR"
  ELSE ""

\* the toast of the catch block for an error that is an Error with a message
MessageToast(message) ==
  IF message = "DATABASE_CONNECTION_ERROR"
  THEN "Unable to connect to the server. Please check your internet connection and try again."
  ELSE IF message = "DATABASE_SCHEMA_ERROR"
  THEN "Server configuration error. Please contact support."
  ELSE IF message = "DATABASE_VALIDATION_ERROR"
  THEN "Data validation error. Please contact support."
  ELSE IF Includes(message, "Network Error") \/ Includes(message, "timeout")
  THEN "Network error. Please check your internet connection and try again."
  ELSE IF Includes(message, "PostgreSQL") \/ Includes(message, "SQLSTATE")
          \/ Includes(message, "TypeORM")
  THEN "Database error occurred. Please try again later or contact support."
  ELSE "Registration failed: " \o message

\* the toast of the catch block for a response with an error status
StatusToast(status, message) ==
  IF status = "401"
  THEN (IF message # Null THEN message[1]
        ELSE "Authentication failed. Please check your credentials and try again.")
  ELSE IF status = "409"
  THEN (IF message # Null THEN message[1]
        ELSE "This email address is already registered. Please use a different email or try logging in instead.")
  ELSE IF status = "400"
  THEN "Invalid registration data. Please check all fields and try again."
  ELSE IF status = "500"
  THEN "Server error occurred. Please try again later or contact support if the problem persists."
  ELSE "Registration failed (Error " \o status \o "). Please try again or contact support."

\* the POST resolves: the body is checked, then the success card or a toast
PostResolves(responseData) ==
  /\ register.mounted /\ register.posting
  /\ register' =
       IF ResponseError(responseData) = ""
       THEN [register EXCEPT !.posting = FALSE, !.loading = FALSE, !.success = TRUE,
                             !.toast = "Registration successful"]
       ELSE [register EXCEPT !.posting = FALSE, !.loading = FALSE,
                             !.toast = MessageToast(ResponseError(responseData))]
  /\ UNCHANGED <<backend, dashboard, chat>>

\* the POST rejects with a response of an error status
PostRejects(status, message) ==
  /\ register.mounted /\ register.posting
  /\ register' = [register EXCEPT !.posting = FALSE, !.loading = FALSE,
                                  !.toast = StatusToast(status, message)]
  /\ UNCHANGED <<backend, dashboard, chat>>

\* the POST fails without a response
PostFails(message) ==
  /\ register.mounted /\ register.posting
  /\ register' = [register EXCEPT !.posting = FALSE, !.loading = FALSE,
                                  !.toast = MessageToast(message)]
  /\ UNCHANGED <<backend, dashboard, chat>>

\* emails that pass the form's validation, with plain and restricted domains
RegisterEmails ==
  {"ann@corp.com", "bob@firm.io", "eve@test.com", "eve@Example.org",
   "eve@contest.io", "eve@tempmail.net"}

\* values that pass the form's schema
RegisterValues ==
  [name : {"Ann"}, email : RegisterEmails, password : {"secret1"}, role : SelectableRoles]

RegisterResponses ==
  {[object |-> TRUE, fields |-> {"id", "email", "name"}, idType |-> "string"],
   [object |-> TRUE, fields |-> {"id", "email", "name"}, idType |-> "object"],
   [object |-> TRUE, fields |-> {"email", "name"}, idType |-> "string"],
   [object |-> FALSE, fields |-> {}, idType |-> "string"]}

RegisterStatuses == {"400", "401", "409", "500", "503"}

RegisterMessages == {Null, Some("Email already in use")}

RegisterFailures == {"Network Error", "timeout of 10000ms exceeded", "Request aborted"}

InitRegister ==
  /\ BackendIdle
  /\ dashboard = NoDashboard
  /\ register = NewRegister
  /\ chat = NoChat

NextRegister ==
  \/ \E values \in RegisterValues : OnSubmit(values)
  \/ \E responseData \in RegisterResponses : PostResolves(responseData)
  \/ \E status \in RegisterStatuses, message \in RegisterMessages : PostRejects(status, message)
  \/ \E message \in RegisterFailures : PostFails(message)

SpecRegister == InitRegister /\ [][NextRegister]_vars

\* C20: a submit with any of the three roles of the select and an email that
\* passes the domain check passes the role gate and sends POST /auth/register
\* with the submitted values; no role is the reason a submit is turned away.
C20_AllRolesPassGate ==
  register.mounted =>
    /\ (register.values # NoValues /\ CheckDomainRestrictions(register.values.email)) =>
         /\ register.gate = "passed"
         /\ register.request = register.values
    /\ register.gate # "role"
    /\ register.gate = "passed" => register.request.role \in SelectableRoles
    /\ register.posting => register.gate = "passed" /\ register.loading

\* a submit as compliance officer has sent its POST
C20_Witness ==
  /\ register.mounted
  /\ register.posting
  /\ register.request.role = "COMPLIANCE_OFFICER"
  /\ register.request.email = "ann@corp.com"

-----------------------------------------------------------------------------
(* SpecRace: one user, two requests at a time, sending into and deleting one  *)
(* session                                                                    *)

RaceMessages == 4      \* messages ever created in SpecRace

RaceDtos == [message : {"hi", "more"}, sessionId : {NoSession, 1}, documentIds : {<<>>}]

\* a session id a client can hold: none, or one the service has handed out
Issued(sessionId) == sessionId = NoSession \/ sessionId < nextSessionId

InitRace == InitStore(Slots) /\ openRouterApiKey # ""

NextRace ==
  \E r \in Slots :
    \/ Respond(r)
    \/ ~Settled /\ DeleteFind(r, "u1", 1)
    \/ ~Settled /\ DeleteMessages(r)
    \/ ~Settled /\ \E onDelete \in OnDeleteActions : DeleteRow(r, onDelete)
    \/ ~Settled /\ RoomFor(RaceMessages)
         /\ \E dto \in RaceDtos : Issued(dto.sessionId) /\ SendStart(r, "u1", dto)
    \/ ~Settled /\ SendFindSession(r)
    \/ ~Settled /\ nextSessionId <= MaxSessions /\ SendCreateSession(r)
    \/ ~Settled /\ nextMessageId <= RaceMessages /\ SendPersistUser(r)
    \/ ~Settled /\ SendLoadHistory(r)
    \/ ~Settled /\ \E response \in LongResponses : SendProviderResponds(r, response)
    \/ ~Settled /\ nextMessageId <= RaceMessages /\ SendPersistAssistant(r)

SpecRace == InitRace /\ [][NextRace]_vars

\* the roles of the stored messages of a session, oldest first
RolesOf(rows) == [i \in DOMAIN rows |-> rows[i].role]

\* the send has loaded its history and waits for, or has, the provider's answer
HistoryLoaded(req) ==
  req.kind = "send" /\ req.pc \in {"awaitProvider", "persistAssistant"}

\* C21: two sends to one session are not serialized.  The history a send loads
\* and forwards is the store as it is at that moment: it holds the user message
\* that another send of the same session stored earlier although that send has
\* not stored its reply yet, and it holds no reply of that send.
C21_HistoryIgnoresInFlight ==
  \A r \in DOMAIN reqs : \A q \in DOMAIN reqs \ {r} :
    LET req == reqs[r]
        other == reqs[q]
    IN (/\ HistoryLoaded(req) /\ HistoryLoaded(other)
        /\ other.sessionId = req.sessionId
        /\ other.userMessage.id < req.userMessage.id
        /\ other.userMessage.id \notin DOMAIN audit.removedBy) =>
         /\ \E i \in DOMAIN req.recentMessages :
               /\ req.recentMessages[i] = other.userMessage
               /\ \E j \in DOMAIN req.recentMessages :
                     i < j /\ req.recentMessages[j] = req.userMessage
         /\ \A i \in DOMAIN req.recentMessages :
               req.recentMessages[i].id \in {other.stored[j] : j \in DOMAIN other.stored} =>
                 req.recentMessages[i].role = "user"
         /\ req.payload = MessagesPayload("", req.recentMessages)

\* the second of two interleaved sends has returned: its history held the two
\* user messages and no reply, and the session is stored as user, user,
\* assistant, assistant
C21_Witness ==
  \E r \in DOMAIN reqs :
    LET req == reqs[r]
    IN /\ req.kind = "send" /\ req.pc = "done" /\ req.result.status = "ok"
       /\ RolesOf(MessagesOf(messages, req.sessionId)) =
            <<"user", "user", "assistant", "assistant">>
       /\ RolesOf(req.recentMessages) = <<"user", "user">>
       /\ \E i \in DOMAIN req.recentMessages :
             req.recentMessages[i].id \notin {req.stored[j] : j \in DOMAIN req.stored}

\* no handler is running
Quiet == \A r \in DOMAIN reqs : reqs[r].pc \in {"idle", "done"}

\* the ids of the messages ever stored in a session
AddedTo(sessionId) == {id \in DOMAIN audit.added : audit.added[id].sessionId = sessionId}

RowOf(id) ==
  IF id \in Ids(messages)
  THEN messages[CHOOSE i \in DOMAIN messages : messages[i].id = id]
  ELSE NoMessage

\* C26: a sendMessage that returns has added exactly two messages, the user
\* message and then the assistant message, both in the session whose id it
\* returns; a sendMessage that fails at the provider has added exactly one
\* message, the user message.
C26_SendAddsTwoOrOne ==
  \A r \in DOMAIN reqs :
    LET req == reqs[r]
        result == req.result
    IN (req.kind = "send" /\ req.pc = "done") =>
         /\ result.status = "ok" =>
              /\ Len(req.stored) = 2
              /\ req.stored[1] = result.userMessage.id
              /\ req.stored[2] = result.assistantMessage.id
              /\ req.stored[1] < req.stored[2]
              /\ result.userMessage.role = "user"
              /\ result.userMessage.sessionId = result.sessionId
              /\ result.assistantMessage.role = "assistant"
              /\ result.assistantMessage.sessionId = result.sessionId
              /\ RowOf(req.stored[2]) = result.assistantMessage
              /\ RowOf(req.stored[1]) \in {result.userMessage, NoMessage}
              /\ \A i \in DOMAIN req.stored :
                    audit.added[req.stored[i]].sessionId = result.sessionId
         /\ (result.status = "InternalServerErrorException"
               /\ req.response.kind = "error") =>
              /\ Len(req.stored) = 1
              /\ req.userMessage.id = req.stored[1]
              /\ req.userMessage.role = "user"
              /\ audit.added[req.stored[1]].sessionId = req.sessionId
              /\ RowOf(req.stored[1]) \in {req.userMessage, NoMessage}

\* a send has returned its two messages while another send stored its user
\* message in between them, and no other reply is stored
C26_Witness ==
  \E r \in DOMAIN reqs :
    LET req == reqs[r]
    IN /\ req.kind = "send" /\ req.pc = "done" /\ req.result.status = "ok"
       /\ req.stored[2] > req.stored[1] + 1
       /\ \E i \in DOMAIN messages :
             /\ messages[i].role = "user"
             /\ messages[i].id \notin {req.stored[1], req.stored[2]}
             /\ \A j \in DOMAIN messages :
                   messages[j].role = "assistant" => messages[j].id = req.stored[2]

\* the send was given the id of a session of its caller and findFirst found it
SentIntoOwned(req) ==
  /\ req.kind = "send"
  /\ req.dto.sessionId # NoSession
  /\ req.sessionId = req.dto.sessionId
  /\ \/ req.pc \in AfterResolve
     \/ req.pc = "done" /\ req.result.status # "UnauthorizedException"

\* C30: a sendMessage given the id of a session its caller owns creates no
\* session and leaves the row as it was created, with the title derived from
\* the message that opened it; the sessionTitle it returns is that title.  No
\* session row ever differs from the row as created.
C30_OwnedSessionUntouched ==
  /\ \A id \in DOMAIN sessions :
       /\ sessions[id] = audit.created[id]
       /\ \E dto \in RaceDtos : sessions[id].title = NewSessionTitle(dto.message)
  /\ \A r \in DOMAIN reqs :
       LET req == reqs[r]
       IN SentIntoOwned(req) =>
            /\ req.created = <<>>
            /\ audit.created[req.sessionId].userId = req.user
            /\ req.pc # "done" => req.sessionTitle = audit.created[req.sessionId].title
            /\ (req.pc = "done" /\ req.result.status = "ok") =>
                 /\ req.result.sessionId = req.dto.sessionId
                 /\ req.result.sessionTitle = audit.created[req.sessionId].title
                 /\ sessions[req.sessionId] = audit.created[req.sessionId]

\* the message "more" has been sent into the session that "hi" opened, and the
\* send has returned the title "hi"
C30_Witness ==
  \E r \in DOMAIN reqs :
    LET req == reqs[r]
    IN /\ SentIntoOwned(req) /\ req.pc = "done" /\ req.result.status = "ok"
       /\ req.dto.message = "more"
       /\ req.result.sessionTitle = "hi"
       /\ sessions[req.sessionId].title = "hi"
       /\ nextSessionId = 2

-----------------------------------------------------------------------------
(* ChatPage: the chat view of one user against the chat service.  A request   *)
(* of the page is posted, handled by the service in a request slot, and its   *)
(* response settles the handler that awaited it.                              *)

ChatMessages == 3      \* messages ever created in SpecChat

ChatUser == "u1"

\* the id of an optimistic message: `temp-${Date.now()}`, apart from every
\* server id and one per clock reading
TempId(now) == 0 - now

\* no handleSend in flight
NoSend ==
  [state |-> "idle", tempId |-> 0, currentSessionId |-> NoSession,
   body |-> [sessionId |-> Null, message |-> "", documentIds |-> Null],
   before |-> <<>>]

\* no loadSession or deleteSession in flight
NoCall == [state |-> "idle", id |-> NoSession, currentSessionId |-> NoSession]

\* the page after mount, with the document selection found in localStorage
NewChat(selectedDocIds) ==
  [mounted |-> TRUE,
   currentSessionId |-> NoSession,   \* null
   messages |-> <<>>,                \* the displayed list; origin is the session a
                                     \* server-stored message belongs to
   isSending |-> FALSE,
   selectedDocIds |-> selectedDocIds,
   now |-> 0,                        \* the last reading of Date.now()
   send |-> NoSend,
   load |-> NoCall,
   del |-> NoCall]

\* a displayed message
Displayed(id, role, content, origin) ==
  [id |-> id, role |-> role, content |-> content, origin |-> origin]

\* toggleDocSelection: the id is taken out when selected, appended otherwise
ToggleDocSelection(id) ==
  /\ chat.mounted
  /\ chat' = [chat EXCEPT !.selectedDocIds =
       IF \E i \in DOMAIN chat.selectedDocIds : chat.selectedDocIds[i] = id
       THEN SelectSeq(chat.selectedDocIds, LAMBDA d : d # id)
       ELSE Append(chat.selectedDocIds, id)]
  /\ UNCHANGED <<backend, dashboard, register>>

\* the body of POST /chat/send: { sessionId: currentSessionId, message: userContent,
\* documentIds: selectedDocIds }; a null sessionId is Null, the array is always there
SendBody(currentSessionId, userContent, selectedDocIds) ==
  [sessionId |-> IF currentSessionId = NoSession THEN Null ELSE Some(currentSessionId),
   message |-> userContent,
   documentIds |-> Some(selectedDocIds)]

\* the dto the service reads from a body: a null sessionId and an empty
\* documentIds are falsy there, like absent ones
Received(body) ==
  [message |-> body.message,
   sessionId |-> IF body.sessionId = Null THEN NoSession ELSE body.sessionId[1],
   documentIds |-> IF body.documentIds = Null THEN <<>> ELSE body.documentIds[1]]

\* handleSend up to its await: the optimistic message and the POST
HandleSend(input) ==
  LET userContent == Trim(input)
      tempId == TempId(chat.now + 1)
  IN /\ chat.mounted /\ ~chat.isSending
     /\ userContent # ""
     /\ chat' = [chat EXCEPT
          !.isSending = TRUE,
          !.now = chat.now + 1,
          !.messages = Append(chat.messages, Displayed(tempId, "user", userContent, NoSession)),
          !.send = [state |-> "posted", tempId |-> tempId,
                    currentSessionId |-> chat.currentSessionId,
                    body |-> SendBody(chat.currentSessionId, userContent, chat.selectedDocIds),
                    before |-> chat.messages]]
     /\ UNCHANGED <<backend, dashboard, register>>

\* a slot runs a handler of the given kind
Running(kind) == \E q \in DOMAIN reqs : reqs[q].kind = kind

\* the POST reaches the service
SendArrives(r) ==
  /\ chat.mounted /\ chat.send.state = "posted" /\ ~Running("send")
  /\ SendStart(r, ChatUser, Received(chat.send.body))

\* a catch block that drops the newest displayed message
RemoveNewest(displayed, tempId) == SubSeq(displayed, 1, Len(displayed) - 1)

\* the catch block of handleSend: prev.filter((m) => m.id !== tempId)
RemoveOptimistic(displayed, tempId) == SelectSeq(displayed, LAMBDA m : m.id # tempId)

\* if (!currentSessionId) setCurrentSessionId(data.sessionId), on the value of
\* currentSessionId that handleSend was called with
AdoptSession(closure, current, returned) ==
  IF closure = NoSession THEN returned ELSE current

\* setMessages((prev) => [...prev, the assistant message of the response])
AppendReply(displayed, result) ==
  Append(displayed,
    Displayed(result.assistantMessage.id, "assistant",
              result.assistantMessage.content, result.assistantMessage.sessionId))

\* the POST settles: the rest of handleSend's try, or its catch, and its finally
SendSettles(r) ==
  LET result == reqs[r].result
      send == chat.send
  IN /\ chat.mounted /\ send.state = "posted"
     /\ reqs[r].kind = "send" /\ reqs[r].pc = "done"
     /\ chat' = [chat EXCEPT
          !.currentSessionId =
             IF result.status = "ok"
             THEN AdoptSession(send.currentSessionId, chat.currentSessionId, result.sessionId)
             ELSE chat.currentSessionId,
          !.messages =
             IF result.status = "ok"
             THEN AppendReply(chat.messages, result)
             ELSE RemoveOptimistic(chat.messages, send.tempId),
          !.isSending = FALSE,
          !.send = NoSend]
     /\ reqs' = Released(r)
     /\ UNCHANGED <<openRouterApiKey, sessions, messages, nextSessionId, nextMessageId,
                    audit, sanitized, dashboard, register>>

\* loadSession up to its await: GET /chat/sessions/:id
LoadSession(id) ==
  /\ chat.mounted /\ chat.load.state = "idle" /\ chat.del.state = "idle"
  /\ chat' = [chat EXCEPT !.load = [NoCall EXCEPT !.state = "posted", !.id = id]]
  /\ UNCHANGED <<backend, dashboard, register>>

LoadArrives(r) ==
  /\ chat.mounted /\ chat.load.state = "posted" /\ ~Running("get")
  /\ GetSession(r, ChatUser, chat.load.id)

\* (data.messages || []).map(...): the rows as displayed messages
DisplayedRows(rows) ==
  [i \in DOMAIN rows |->
     Displayed(rows[i].id, IF rows[i].role = "assistant" THEN "assistant" ELSE "user",
               rows[i].content, rows[i].sessionId)]

\* the GET settles.  For a session that is not found the service returns null;
\* the body the page then reads is not fixed by this code: reading data.id of
\* it either throws (the catch shows a toast and leaves the state) or gives
\* undefined with no messages
LoadSettles(r, thrown) ==
  LET result == reqs[r].result
  IN /\ chat.mounted /\ chat.load.state = "posted"
     /\ reqs[r].kind = "get" /\ reqs[r].pc = "done"
     /\ chat' =
          IF result.sessionId = NoSession /\ thrown
          THEN [chat EXCEPT !.load = NoCall]
          ELSE [chat EXCEPT !.currentSessionId = result.sessionId,
                            !.messages = DisplayedRows(result.rows),
                            !.load = NoCall]
     /\ reqs' = Released(r)
     /\ UNCHANGED <<openRouterApiKey, sessions, messages, nextSessionId, nextMessageId,
                    audit, sanitized, dashboard, register>>

\* deleteSession of the page up to its await: DELETE /chat/sessions/:id
DeleteSession(id) ==
  /\ chat.mounted /\ chat.load.state = "idle" /\ chat.del.state = "idle"
  /\ chat' = [chat EXCEPT !.del =
       [state |-> "posted", id |-> id, currentSessionId |-> chat.currentSessionId]]
  /\ UNCHANGED <<backend, dashboard, register>>

DeleteArrives(r) ==
  /\ chat.mounted /\ chat.del.state = "posted" /\ ~Running("delete")
  /\ DeleteFind(r, ChatUser, chat.del.id)

\* the DELETE settles: the view is cleared when the deleted session was the
\* current one when deleteSession was called; a store error shows a toast and
\* leaves the state
DeleteSettles(r) ==
  LET result == reqs[r].result
      del == chat.del
      cleared == result.status # "PrismaError" /\ del.currentSessionId = del.id
  IN /\ chat.mounted /\ del.state = "posted"
     /\ reqs[r].kind = "delete" /\ reqs[r].pc = "done"
     /\ chat' = [chat EXCEPT
          !.currentSessionId = IF cleared THEN NoSession ELSE chat.currentSessionId,
          !.messages = IF cleared THEN <<>> ELSE chat.messages,
          !.del = NoCall]
     /\ reqs' = Released(r)
     /\ UNCHANGED <<openRouterApiKey, sessions, messages, nextSessionId, nextMessageId,
                    audit, sanitized, dashboard, register>>

\* what the user types
ChatInputs == {" hi "}

\* the selection localStorage holds on mount; the user changes it before the
\* first message
ChatSelections == {<<>>, <<"docA">>}

InitChat ==
  /\ openRouterApiKey = "sk-or-key"
  /\ sessions = <<>>
  /\ messages = <<>>
  /\ nextSessionId = 1
  /\ nextMessageId = 1
  /\ reqs = [r \in Slots |-> Idle]
  /\ audit = InitAudit
  /\ sanitized = NotSanitized
  /\ dashboard = NoDashboard
  /\ register = NoRegister
  /\ \E selectedDocIds \in ChatSelections : chat = NewChat(selectedDocIds)

NextChat ==
  \/ chat.now = 0 /\ ToggleDocSelection("docA")
  \/ nextMessageId <= ChatMessages /\ \E input \in ChatInputs : HandleSend(input)
  \/ \E id \in 1..MaxSessions : Issued(id) /\ LoadSession(id)
  \/ \E id \in 1..MaxSessions : Issued(id) /\ DeleteSession(id)
  \/ \E r \in Slots :
       \/ SendArrives(r)
       \/ SendFindSession(r)
       \/ nextSessionId <= MaxSessions /\ SendCreateSession(r)
       \/ SendPersistUser(r)
       \/ SendLoadHistory(r)
       \/ SendLoadDocuments(r)
       \/ \E response \in LongResponses : SendProviderResponds(r, response)
       \/ nextMessageId <= ChatMessages /\ SendPersistAssistant(r)
       \/ SendSettles(r)
       \/ LoadArrives(r)
       \/ \E thrown \in BOOLEAN : LoadSettles(r, thrown)
       \/ DeleteArrives(r)
       \/ DeleteMessages(r)
       \/ \E onDelete \in OnDeleteActions : DeleteRow(r, onDelete)
       \/ DeleteSettles(r)

SpecChat == InitChat /\ [][NextChat]_vars

\* C24 as claimed: every server-stored message in the displayed list belongs
\* to the session currentSessionId names, also when a loadSession or a
\* deleteSession settles while a send is in flight.
C24_DisplayedBelongToCurrent ==
  chat.mounted =>
    \A i \in DOMAIN chat.messages :
      chat.messages[i].origin # NoSession =>
        chat.messages[i].origin = chat.currentSessionId

\* the step in which the POST of handleSend resolves in slot r
SendReturns(r) ==
  /\ reqs[r].kind = "send" /\ reqs[r].pc = "done" /\ reqs[r].result.status = "ok"
  /\ chat.send.state = "posted" /\ chat'.send.state = "idle"

\* the step in which the POST of handleSend is rejected in slot r
SendFails(r) ==
  /\ reqs[r].kind = "send" /\ reqs[r].pc = "done" /\ reqs[r].result.status # "ok"
  /\ chat.send.state = "posted" /\ chat'.send.state = "idle"

\* C25 as claimed, for the sends during which the page has loaded no other
\* session: after a successful send currentSessionId is the sessionId the
\* server returned, also when the server fell back to a new session.
C25_CurrentIsReturned ==
  [][\A r \in DOMAIN reqs :
       (SendReturns(r) /\ chat.currentSessionId \in {chat.send.currentSessionId, NoSession}) =>
         chat'.currentSessionId = reqs[r].result.sessionId]_vars

\* what the ValidationPipe checks on a body: @IsString message; @IsOptional
\* @IsString sessionId; @IsOptional @IsArray @ArrayNotEmpty @ArrayUnique
\* @IsString({ each }) documentIds.  @IsOptional skips null and undefined.
SatisfiesSendChatDto(body) ==
  /\ body.message \in STRING
  /\ body.sessionId # Null => body.sessionId[1] \in Nat \ {NoSession}
  /\ body.documentIds # Null =>
       LET ids == body.documentIds[1]
       IN /\ Len(ids) > 0
          /\ \A i \in DOMAIN ids, j \in DOMAIN ids : ids[i] = ids[j] => i = j
          /\ \A i \in DOMAIN ids : ids[i] \in STRING

\* C27 as claimed: every body the page posts to /chat/send satisfies the rules
\* of SendChatDto, also with no document selected and with no current session.
C27_BodySatisfiesDto ==
  (chat.mounted /\ chat.send.state = "posted") => SatisfiesSendChatDto(chat.send.body)

Optimistic(send) == Displayed(send.tempId, "user", send.body.message, NoSession)

====
